---------------------------- MODULE Spec2Model ----------------------------
(***************************************************************************)
(* In-memory datastore (impl/memory/datastore_data.go) and the dscache     *)
(* fetch planner (makeFetchPlan).                                          *)
(*                                                                         *)
(* The head store is one collection "ents:<ns>" (a single namespace) that  *)
(* holds entity rows and the special rows (__entity_group__,               *)
(* __entity_group_ids__, __entity_root_ids__), plus the index rows.  Every *)
(* section of the code that runs with d.rwlock held is one atomic action;  *)
(* code that runs without the lock (canApplyTxn, mkTxn) is an action of    *)
(* its own, so that other threads interleave between it and the locked     *)
(* sections that follow it.                                                *)
(***************************************************************************)
EXTENDS Integers, Sequences, FiniteSets, TLC

\* ------------------------------------------------------------------ bounds
NumRoots == 2        \* root ids 1..NumRoots (also the cap of the root-id counter)
MaxChild == 1        \* child ids 1..MaxChild under each root (cap of group-id counters)
MaxVal == 1          \* entity payloads 1..MaxVal
MaxTxnOps == 2       \* Get/Put/Delete calls made inside the first transaction
MaxDsOps == 1        \* non-transactional writes (Put/Delete/allocateIDs) on head
MaxSnaps == 1        \* snapshots taken by the observer thread
MaxModeOps == 3      \* calls of the writer in the consistency-mode runs
MaxClosedOps == 3    \* calls on the transaction context the ended-txn runs make
MaxMultiKeys == 2    \* keys given to one call with several keys
MaxMultiCalls == 1   \* calls with several keys by the head's caller
MaxAllocCalls == 3   \* calls of the head's caller in the ID allocation runs
MaxQVal == 3         \* values 1..MaxQVal of the inequality property in filters
MaxQKey == 2         \* keys 1..MaxQKey a cursor can stand on
MaxFilters == 2      \* inequality filters given to one query
MaxBuilderCalls == 4 \* Eq and Order calls that build one query
MaxStepCalls == 2     \* calls on head in the runs that follow a call key by key
MaxRaceOps == 2      \* run calls of the second thread that shares a transaction context
MaxLimitMuts == 1    \* mutations recorded by the transaction that meets the group limit

\* ------------------------------------------------------- program constants
xgEGLimit == 25

\* -------------------------------------------------------------------- keys
\* A key is <<parent root id, id>>; parent 0 is a root key, id 0 is incomplete.
Txns == {1, 2}
Roots == 1..NumRoots
Vals == 1..MaxVal
RootKeys == {<<0, r>> : r \in Roots}
ChildKeys == {<<r, c>> : r \in Roots, c \in 1..MaxChild}
CompleteKeys == RootKeys \cup ChildKeys
IncompleteKeys == {<<0, 0>>} \cup {<<r, 0>> : r \in Roots}
\* The keys callers pass in: both roots, the children of root 1, and the
\* incomplete keys for a new root and for a new child of root 1.
InComplete == RootKeys \cup {<<1, c>> : c \in 1..MaxChild}
InKeys == InComplete \cup {<<0, 0>>, <<1, 0>>}
NoKey == <<0, 0>>

Incomplete(key) == key[2] = 0
Parent(key) == key[1]
Kind(key) == "K"
Root(key) == IF key[1] = 0 THEN key ELSE <<0, key[1]>>

\* Serialized row keys of the collection: <<kind of row, parent, id>>.
keyBytes(key) == <<"ent", key[1], key[2]>>
\* Mutant: one metadata row for all groups instead of one per root.
groupMetaKey_norootM(key) == <<"__entity_group__", 0, 1>>
groupMetaKey(key) == <<"__entity_group__", Root(key)[2], 1>>
groupIDsKey(key) == <<"__entity_group_ids__", Root(key)[2], 1>>
rootIDsKey(kind) == <<"__entity_root_ids__:" \o kind, 0, 0>>

\* ------------------------------------------------------------------ stores
\* A memCollection maps the row keys it holds to their values (entity
\* payloads and counters, all >= 1); Get of a missing row gives 0 for nil.
\* A memStore is the collection plus the index rows.
collGet(ents, key) == IF key \in DOMAIN ents THEN ents[key] ELSE 0
collSet(ents, key, v) ==
    [x \in DOMAIN ents \cup {key} |-> IF x = key THEN v ELSE ents[x]]
collDelete(ents, key) == [x \in DOMAIN ents \ {key} |-> ents[x]]
EmptyColl == <<>>
EmptyStore == [ents |-> EmptyColl, idx |-> {}]

\* A *memStore handle.  Snapshot() yields an immutable copy; the handle of
\* the live head reads whatever head holds at the time of the read.
Snapshot(m) == [live |-> FALSE, m |-> m]
NoSnap == Snapshot(EmptyStore)

curVersion(ents, key) == collGet(ents, key)

\* Mutant: the counter restarts from amt instead of moving on by amt.
incrementLocked_restartM(ents, key, amt) ==
    [panic |-> amt <= 0, ents |-> collSet(ents, key, amt), ret |-> 1]

\* Mutant: the block starts at the counter's value, not one above it.
incrementLocked_overlapM(ents, key, amt) ==
    IF amt <= 0
    THEN [panic |-> TRUE, ents |-> ents, ret |-> 0]
    ELSE LET ret == curVersion(ents, key)
         IN  [panic |-> FALSE, ents |-> collSet(ents, key, ret + amt), ret |-> ret]

\* incrementLocked panics on amt <= 0 before it writes anything.
incrementLocked(ents, key, amt) ==
    IF amt <= 0
    THEN [panic |-> TRUE, ents |-> ents, ret |-> 0]
    ELSE LET ret == curVersion(ents, key) + 1
         IN  [panic |-> FALSE, ents |-> collSet(ents, key, ret + (amt - 1)),
              ret |-> ret]

\* updateIndexes(store, key, oldPM, newPM): the by-property index holds one
\* row <<value, key>> per stored entity.
updateIndexes(idx, key, old, new) ==
    (idx \ (IF old = 0 THEN {} ELSE {<<old, key[1], key[2]>>}))
        \cup (IF new = 0 THEN {} ELSE {<<new, key[1], key[2]>>})

\* The mutable "ents:<ns>" collection of head, created empty when missing.
mutableEntsLocked(h) == h.ents

\* The panic of incrementLocked, as the caller of allocateIDs meets it.
BadAmt == "panic: incrementLocked called with bad amt"

\* Mutant: IDs are allocated whether or not special entities are disabled.
allocateIDsLocked_nodisM(dis, ents, incomplete, n) ==
    LET idKey == IF Parent(incomplete) = 0
                 THEN rootIDsKey(Kind(incomplete))
                 ELSE groupIDsKey(incomplete)
        r == incrementLocked(ents, idKey, n)
    IN  [err |-> IF r.panic THEN BadAmt ELSE "", ents |-> r.ents, ret |-> r.ret]

allocateIDsLocked(dis, ents, incomplete, n) ==
    IF dis
    THEN [err |-> "disabled", ents |-> ents, ret |-> 0]
    ELSE LET idKey == IF Parent(incomplete) = 0
                      THEN rootIDsKey(Kind(incomplete))
                      ELSE groupIDsKey(incomplete)
             r == incrementLocked(ents, idKey, n)
         IN  [err |-> IF r.panic THEN BadAmt ELSE "", ents |-> r.ents,
              ret |-> r.ret]

fixKeyLocked(dis, ents, key) ==
    IF Incomplete(key)
    THEN LET a == allocateIDsLocked(dis, ents, key, 1)
         IN  IF a.err # ""
             THEN [key |-> key, err |-> a.err, ents |-> ents]
             ELSE [key |-> <<key[1], a.ret>>, err |-> "", ents |-> a.ents]
    ELSE [key |-> key, err |-> "", ents |-> ents]

\* Mutant: the group version is incremented even when special entities are
\* disabled.
putLocked_alwaysverM(h, dis, k, v) ==
    LET f == fixKeyLocked(dis, mutableEntsLocked(h), k)
    IN  IF f.err # ""
        THEN [head |-> h, key |-> f.key, err |-> f.err]
        ELSE LET e1 == incrementLocked(f.ents, groupMetaKey(f.key), 1).ents
                 old == collGet(e1, keyBytes(f.key))
             IN  [head |-> [ents |-> collSet(e1, keyBytes(f.key), v),
                            idx |-> updateIndexes(h.idx, f.key, old, v)],
                  key |-> f.key, err |-> ""]

\* The locked body of one iteration of dataStoreData.putMulti.
putLocked(h, dis, k, v) ==
    LET f == fixKeyLocked(dis, mutableEntsLocked(h), k)
    IN  IF f.err # ""
        THEN [head |-> h, key |-> f.key, err |-> f.err]
        ELSE LET e1 == IF ~dis
                       THEN incrementLocked(f.ents, groupMetaKey(f.key), 1).ents
                       ELSE f.ents
                 old == collGet(e1, keyBytes(f.key))
             IN  [head |-> [ents |-> collSet(e1, keyBytes(f.key), v),
                            idx |-> updateIndexes(h.idx, f.key, old, v)],
                  key |-> f.key, err |-> ""]

\* Mutant: the group version moves only when the entity exists.
delLocked_onlyexistingM(h, dis, k) ==
    LET e0 == mutableEntsLocked(h)
        old == collGet(e0, keyBytes(k))
    IN  IF old # 0
        THEN [ents |-> collDelete(
                  IF ~dis THEN incrementLocked(e0, groupMetaKey(k), 1).ents
                  ELSE e0, keyBytes(k)),
              idx |-> updateIndexes(h.idx, k, old, 0)]
        ELSE [ents |-> e0, idx |-> h.idx]

\* The locked body of one iteration of dataStoreData.delMulti.
delLocked(h, dis, k) ==
    LET e1 == IF ~dis
              THEN incrementLocked(mutableEntsLocked(h), groupMetaKey(k), 1).ents
              ELSE mutableEntsLocked(h)
        old == collGet(e1, keyBytes(k))
    IN  IF old # 0
        THEN [ents |-> collDelete(e1, keyBytes(k)),
              idx |-> updateIndexes(h.idx, k, old, 0)]
        ELSE [ents |-> e1, idx |-> h.idx]


\* ------------------------------------------------------------ transactions
NoRk == <<"", 0, 0>>
NoMuts == <<>>
Active == {"open", "applying"}
Ended == {"committed", "failed", "aborted"}

\* A boolean argument as the number a call record holds.
BoolVal(b) == IF b THEN 1 ELSE 0

\* What a call returned or passed to its per-item callback.
Ret(op, key, val, err) == [op |-> op, key |-> key, val |-> val, err |-> err]
NoRet == Ret("", NoKey, 0, "")

\* txnDataStoreData as built by dataStoreData.mkTxn.  The other fields are
\* the position of the threads that use the transaction: inRun says that a
\* second thread is inside run, past its test of closed; st is where
\* RunInTransaction stands, agrp/ai/adone where applyTxn's loops stand, ret
\* what the thread's last call gave back.
mkTxn(h, xg) ==
    [isXG |-> xg, snap |-> Snapshot(h), muts |-> NoMuts, closed |-> 0,
     st |-> "open", agrp |-> NoRk, ai |-> 0, adone |-> {}, ret |-> NoRet,
     inRun |-> FALSE]

IdleTxn == [mkTxn(EmptyStore, FALSE) EXCEPT !.st = "idle"]

\* Mutant: the limit is tested against the size before the insertion.
writeMutation_offbyoneM(td, getOnly, key, data) ==
    LET rk == keyBytes(Root(key))
        limit == IF td.isXG THEN xgEGLimit ELSE 1
    IN  IF rk \notin DOMAIN td.muts /\ Cardinality(DOMAIN td.muts) > limit
        THEN [err |-> IF td.isXG THEN "too many entity groups" ELSE "cross-group",
              muts |-> td.muts]
        ELSE LET m1 == IF rk \in DOMAIN td.muts THEN td.muts
                       ELSE td.muts @@ (rk :> <<>>)
             IN  [err |-> "",
                  muts |-> IF getOnly THEN m1
                           ELSE [m1 EXCEPT ![rk] =
                                    Append(@, [key |-> key, data |-> data])]]

writeMutation(td, getOnly, key, data) ==
    LET rk == keyBytes(Root(key))
        limit == IF td.isXG THEN xgEGLimit ELSE 1
    IN  IF rk \notin DOMAIN td.muts /\ Cardinality(DOMAIN td.muts) + 1 > limit
        THEN [err |-> IF td.isXG THEN "too many entity groups" ELSE "cross-group",
              muts |-> td.muts]
        ELSE LET m1 == IF rk \in DOMAIN td.muts THEN td.muts
                       ELSE td.muts @@ (rk :> <<>>)
             IN  [err |-> "",
                  muts |-> IF getOnly THEN m1
                           ELSE [m1 EXCEPT ![rk] =
                                    Append(@, [key |-> key, data |-> data])]]

\* Groups of the transaction that hold at least one mutation.
Written(td) == {rk \in DOMAIN td.muts : Len(td.muts[rk]) > 0}

RECURSIVE SumLens(_, _)
SumLens(muts, rks) ==
    IF rks = {} THEN 0
    ELSE LET rk == CHOOSE x \in rks : TRUE
         IN  Len(muts[rk]) + SumLens(muts, rks \ {rk})

NumMuts(td) == SumLens(td.muts, DOMAIN td.muts)
NumApplied(td) == SumLens(td.muts, td.adone) + td.ai

\* ------------------------------------------------------ dscache fetch plan
MaxKeys == 4         \* keys given to one makeFetchPlan call

\* A memcache item is <<key, flags, value>> as a record; NilItem is the nil
\* mc.Item of a key that is not cacheable.
NilItem == [key |-> 0, flags |-> "nil", value |-> ""]
NilPM == "nil"
NilMeta == "nil"
ItemFlagValues ==
    {<<"ItemHasLock", "n1">>, <<"ItemHasLock", "n2">>, <<"ItemHasLock", "">>,
     <<"ItemHasData", "pm">>, <<"ItemHasData", "">>, <<"ItemHasData", "n1">>,
     <<"ItemUKNOWN", "n1">>, <<"ItemUKNOWN", "pm">>}
NoItem == <<"nil", "">>
ItemAt(i, fv) ==
    IF fv = NoItem THEN NilItem ELSE [key |-> i, flags |-> fv[1], value |-> fv[2]]
Nonces == {"n1", "n2"}

\* decodeItemValue: an empty value stands for a missing entity, "pm" is a
\* well-formed encoded property map, anything else does not decode.
decodeItemValue(val) ==
    IF val = "" THEN [pmap |-> NilPM, err |-> "ErrNoSuchEntity"]
    ELSE IF val = "pm" THEN [pmap |-> "pm", err |-> ""]
    ELSE [pmap |-> NilPM, err |-> "decode error"]

\* The key and the meta getter entry of input index i.
getKeyAt(i) == <<1, i>>
GetSingle(getMeta, i) == IF getMeta THEN i ELSE NilMeta

\* The plan as makeFetchPlan starts it, for n keys.
newPlan(keepMeta, n) ==
    [keepMeta |-> keepMeta, idxMap |-> <<>>, toGet |-> <<>>, toGetMeta |-> <<>>,
     toSave |-> <<>>, decoded |-> [i \in 1..n |-> NilPM],
     lme |-> [i \in 1..n |-> ""]]

\* Mutant: the meta getter entry is kept whether or not the caller gave one.
add_alwaysmetaM(p, idx, get, m, save) ==
    [p EXCEPT !.idxMap = Append(@, idx),
              !.toGet = Append(@, get),
              !.toSave = Append(@, save),
              !.toGetMeta = Append(@, m)]

add(p, idx, get, m, save) ==
    [p EXCEPT !.idxMap = Append(@, idx),
              !.toGet = Append(@, get),
              !.toSave = Append(@, save),
              !.toGetMeta = IF p.keepMeta THEN Append(@, m) ELSE @]

empty(p) == Len(p.idxMap) = 0

\* Mutant: a cached "no such entity" is recorded and fetched all the same.
planItem_refetchM(p, f, i) ==
    LET m == GetSingle(f.getMeta, i)
        getKey == getKeyAt(i)
        lockItm == f.lockItems[i]
    IN  IF lockItm = NilItem THEN add(p, i, getKey, m, NilItem)
        ELSE IF lockItm.flags = "ItemHasLock"
             THEN IF f.nonce = lockItm.value
                  THEN add(p, i, getKey, m, lockItm)
                  ELSE add(p, i, getKey, m, NilItem)
        ELSE IF lockItm.flags = "ItemHasData"
             THEN LET d == decodeItemValue(lockItm.value)
                  IN  IF d.err = "" THEN [p EXCEPT !.decoded[i] = d.pmap]
                      ELSE IF d.err = "ErrNoSuchEntity"
                           THEN add([p EXCEPT !.lme[i] = "ErrNoSuchEntity"],
                                    i, getKey, m, NilItem)
                           ELSE add(p, i, getKey, m, NilItem)
        ELSE add(p, i, getKey, m, NilItem)

\* Mutant: a lock item is saved back whoever holds the lock.
planItem_anylockM(p, f, i) ==
    LET m == GetSingle(f.getMeta, i)
        getKey == getKeyAt(i)
        lockItm == f.lockItems[i]
    IN  IF lockItm = NilItem THEN add(p, i, getKey, m, NilItem)
        ELSE IF lockItm.flags = "ItemHasLock" THEN add(p, i, getKey, m, lockItm)
        ELSE IF lockItm.flags = "ItemHasData"
             THEN LET d == decodeItemValue(lockItm.value)
                  IN  IF d.err = "" THEN [p EXCEPT !.decoded[i] = d.pmap]
                      ELSE IF d.err = "ErrNoSuchEntity"
                           THEN [p EXCEPT !.lme[i] = "ErrNoSuchEntity"]
                           ELSE add(p, i, getKey, m, NilItem)
        ELSE add(p, i, getKey, m, NilItem)

\* One iteration of makeFetchPlan's loop, for input index i.
planItem(p, f, i) ==
    LET m == GetSingle(f.getMeta, i)
        getKey == getKeyAt(i)
        lockItm == f.lockItems[i]
    IN  IF lockItm = NilItem THEN add(p, i, getKey, m, NilItem)
        ELSE IF lockItm.flags = "ItemHasLock"
             THEN IF f.nonce = lockItm.value
                  THEN add(p, i, getKey, m, lockItm)
                  ELSE add(p, i, getKey, m, NilItem)
        ELSE IF lockItm.flags = "ItemHasData"
             THEN LET d == decodeItemValue(lockItm.value)
                  IN  IF d.err = "" THEN [p EXCEPT !.decoded[i] = d.pmap]
                      ELSE IF d.err = "ErrNoSuchEntity"
                           THEN [p EXCEPT !.lme[i] = "ErrNoSuchEntity"]
                           ELSE add(p, i, getKey, m, NilItem)
        ELSE add(p, i, getKey, m, NilItem)

\* ------------------------------------------------- per-item callbacks
\* A callback is nil, or returns ret ("Stop" for ds.Stop, else an error of
\* its own) when invoked for item at, and nil for every other item.
NilCb == [nil |-> TRUE, at |-> 0, ret |-> ""]
CbRet(cb, i) == IF ~cb.nil /\ cb.at = i THEN cb.ret ELSE ""
Invoke(cb, calls, r) == IF cb.nil THEN calls ELSE Append(calls, r)
NoCall == [op |-> "", txn |-> 0, keys |-> <<>>, cb |-> NilCb,
           calls |-> <<>>, n |-> 0, err |-> ""]

NoPlan == [f |-> [getMeta |-> FALSE, nonce |-> "", lockItems |-> <<>>],
           p |-> newPlan(FALSE, 0), i |-> 0]

\* --------------------------------------------------------- query reduction
\* A query on one property Foo ordered [Foo asc, __key__ asc]: the inequality
\* filters in the order the builder got them, and the start and end cursors
\* (<<>> when there is none).
ErrNullQuery == "ErrNullQuery"
LowOps == {">", ">="}
HighOps == {"<", "<="}
QVals == 1..MaxQVal
QKeys == 1..MaxQKey
\* Cursors can stand on values outside the filters' values.
CursorVals == 0..(MaxQVal + 1)
Filters == [op : LowOps \cup HighOps, v : QVals]
NoBound == [set |-> FALSE, incl |-> FALSE, v |-> 0]
Bound(incl, v) == [set |-> TRUE, incl |-> incl, v |-> v]

\* A position in the index is a byte string; it is held as <<v, s>> by the
\* rows it separates: ToBytes(v), the encoded value alone, precedes every
\* row whose column holds v, curs(v, k) is the row (v, key k), and
\* increment(ToBytes(v)) follows every row whose column holds v.
Top == MaxQKey + 1
ToBytes(v) == <<v, 0>>
increment(pos) == <<pos[1], Top>>
curs(v, k) == <<v, k>>
NilPos == <<>>
Lowest == ToBytes(0)
\* bytes.Compare(a, b) < 0
PosLess(a, b) == a[1] < b[1] \/ (a[1] = b[1] /\ a[2] < b[2])

\* Gt/Gte on top of the low bound so far: the tighter bound wins.
tighterLow(b, incl, v) ==
    IF ~b.set \/ v > b.v \/ (v = b.v /\ ~incl) THEN Bound(incl, v) ELSE b
\* Lt/Lte on top of the high bound so far.
tighterHigh(b, incl, v) ==
    IF ~b.set \/ v < b.v \/ (v = b.v /\ ~incl) THEN Bound(incl, v) ELSE b

RECURSIVE combine(_, _, _, _)
combine(filters, i, low, high) ==
    IF i > Len(filters) THEN [low |-> low, high |-> high]
    ELSE LET f == filters[i]
         IN  IF f.op \in LowOps
             THEN combine(filters, i + 1, tighterLow(low, f.op = ">=", f.v), high)
             ELSE combine(filters, i + 1, low, tighterHigh(high, f.op = "<=", f.v))

\* Mutant: equal bounds are impossible even when both are inclusive.
impossible_equalM(low, high) ==
    /\ low.set /\ high.set
    /\ high.v <= low.v

\* The bounds are impossible.
impossible(low, high) ==
    /\ low.set /\ high.set
    /\ \/ high.v < low.v
       \/ high.v = low.v /\ (~low.incl \/ ~high.incl)

\* Normalization of the inequality bounds by Finalize.
Finalize(filters) ==
    LET c == combine(filters, 1, NoBound, NoBound)
    IN  [err |-> IF impossible(c.low, c.high) THEN ErrNullQuery ELSE "",
         low |-> c.low, high |-> c.high]

\* The scan range the bounds alone give: start inclusive, end exclusive.
lowPos(low) ==
    IF ~low.set THEN Lowest
    ELSE IF low.incl THEN ToBytes(low.v) ELSE increment(ToBytes(low.v))
highPos(high) ==
    IF ~high.set THEN NilPos
    ELSE IF high.incl THEN increment(ToBytes(high.v)) ELSE ToBytes(high.v)

\* Mutant: a cursor replaces the bound instead of being clamped to it.
clampStart_replaceM(start, c) == IF c = <<>> THEN start ELSE c[1]
\* The later of the low bound and the start cursor.
clampStart(start, c) ==
    IF c # <<>> /\ PosLess(start, c[1]) THEN c[1] ELSE start
\* The earlier of the high bound and the end cursor.
clampEnd(end, c) ==
    IF c # <<>> /\ (end = NilPos \/ PosLess(c[1], end)) THEN c[1] ELSE end

\* reduce of a finalized query: the range of the bounds, the cursors
\* clamped into it, and the dead-query check.
reduce(fq, startC, endC) ==
    LET start == clampStart(lowPos(fq.low), startC)
        end == clampEnd(highPos(fq.high), endC)
    IN  IF end # NilPos /\ ~PosLess(start, end)
        THEN [err |-> ErrNullQuery, start |-> start, end |-> end]
        ELSE [err |-> "", start |-> start, end |-> end]

NoQuery == [stage |-> "", filters |-> <<>>, startC |-> <<>>, endC |-> <<>>,
            fq |-> Finalize(<<>>), rq |-> reduce(Finalize(<<>>), <<>>, <<>>),
            err |-> ""]

\* ------------------------------------------------------------ sort orders
\* A query under construction holds the properties with an equality filter
\* and the orders in the sequence the builder got them.
KeyProp == "__key__"
EqProps == {"a", "b"}
OrderProps == EqProps \cup {KeyProp}
IndexColumn(p, d) == [Property |-> p, Descending |-> d]
OrderColumns == {IndexColumn(p, d) : p \in OrderProps, d \in BOOLEAN}
BuilderCalls ==
    {[op |-> "Eq", prop |-> p, col |-> IndexColumn(p, FALSE)] : p \in EqProps}
        \cup {[op |-> "Order", prop |-> c.Property, col |-> c] : c \in OrderColumns}
NewQuery == [eqFilts |-> {}, order |-> <<>>]
Eq(q, p) == [q EXCEPT !.eqFilts = @ \cup {p}]
Order(q, col) == [q EXCEPT !.order = Append(@, col)]
RECURSIVE Build(_, _, _)
Build(q, calls, i) ==
    IF i > Len(calls) THEN q
    ELSE Build(IF calls[i].op = "Eq" THEN Eq(q, calls[i].prop)
               ELSE Order(q, calls[i].col), calls, i + 1)

\* Mutant: a duplicate order replaces the earlier one, so the last
\* occurrence is the one kept.
RECURSIVE normalOrders_keeplastM(_, _, _, _)
normalOrders_keeplastM(eqFilts, order, i, out) ==
    IF i > Len(order) THEN out
    ELSE LET o == order[i]
         IN  IF o.Property \in eqFilts
             THEN normalOrders_keeplastM(eqFilts, order, i + 1, out)
             ELSE normalOrders_keeplastM(eqFilts, order, i + 1,
                      Append(SelectSeq(out, LAMBDA c : c.Property # o.Property), o))

\* The loop over the orders: one with an equality filter is dropped, one
\* whose property was seen is dropped.
RECURSIVE normalOrders(_, _, _, _)
normalOrders(eqFilts, order, i, out) ==
    IF i > Len(order) THEN out
    ELSE LET o == order[i]
             seen == {out[j].Property : j \in 1..Len(out)}
         IN  IF o.Property \in eqFilts \/ o.Property \in seen
             THEN normalOrders(eqFilts, order, i + 1, out)
             ELSE normalOrders(eqFilts, order, i + 1, Append(out, o))

\* Ascending __key__ is appended when no order on __key__ is present.
withKey(orders) ==
    IF \E j \in 1..Len(orders) : orders[j].Property = KeyProp
    THEN orders
    ELSE Append(orders, IndexColumn(KeyProp, FALSE))

\* Normalization of the orders by Finalize.
FinalizeOrders(q) ==
    [eqFilts |-> q.eqFilts,
     orders |-> withKey(normalOrders(q.eqFilts, q.order, 1, <<>>))]

\* The query that holds what a finalized query holds.
Requery(fq) == [eqFilts |-> fq.eqFilts, order |-> fq.orders]

\* ---------------------------------------------------------------- state
VARIABLES
    head,        \* d.head: the live store
    disableSpecialEntities,   \* d.disableSpecialEntities
    txn,         \* the transactions, one record per transaction thread
    snap,        \* d.snap: <<>> when nil (always consistent), else <<handle>>
    obs,         \* the handles last returned to the observer, by takeSnapshot
                 \*   (one) or by getQuerySnaps (idx, head)
    dsRet,       \* the last call on head outside a transaction: what it
                 \*   returned, or its argument when it returns nothing
    budget,      \* calls each thread may still make
    beginHead,   \* history: contents of head when each transaction began
    conc,        \* history: the two transactions overlapped in time
    checkHead,   \* history: contents of head when each commit check ran
    touched,     \* history: groups written by non-transactional writers
                 \*          while each transaction was open
    obsAt,       \* history: what each handle of obs read when it was returned
    obsApplied,  \* history: mutations of each txn applied to head when the
                 \*          observer last snapshotted head
    fp,          \* makeFetchPlan: its facts, its plan and its loop index
    mcall,       \* the last call with several keys: its arguments, the
                 \*   callback invocations it made and what it returned
    blocks,      \* history: per ID counter row, the blocks <<firstID, n>>
                 \*          handed to callers, in allocation order
    qr           \* a query on its way through Finalize and reduce, or the
                 \*   call with several keys whose loop is in progress

vars == <<head, snap, disableSpecialEntities, txn, obs, dsRet, budget,
          beginHead, checkHead, conc, touched, obsAt, obsApplied, fp,
          mcall, blocks, qr>>

\* Reading through a handle.
Deref(s) == IF s.live THEN head ELSE s.m

\* Mutant: the live head is handed out instead of a snapshot of it.
takeSnapshot_aliasM(h) == [live |-> TRUE, m |-> EmptyStore]
takeSnapshot(h) == Snapshot(h)

\* Mutant: the index snapshot is always the fresh one.
getQuerySnaps_freshM(h, s, consistent) ==
    LET sn == Snapshot(h) IN <<sn, sn>>

\* getQuerySnaps returns <<idx, head>>.
getQuerySnaps(h, s, consistent) ==
    IF s = <<>>
    THEN LET sn == Snapshot(h) IN <<sn, sn>>
    ELSE LET hd == Snapshot(h)
         IN  <<IF consistent THEN hd ELSE s[1], hd>>

setConsistent(h, always) == IF always THEN <<>> ELSE <<Snapshot(h)>>

\* Mutant: no test for the always-consistent mode.
catchupIndexes_nocheckM(h, s) == <<Snapshot(h)>>

catchupIndexes(h, s) == IF s = <<>> THEN s ELSE <<Snapshot(h)>>

\* setSnapshot(snap), with the argument as <<>> for nil or <<handle>>.
setSnapshot(s, arg) == IF s = <<>> THEN s ELSE arg

\* Mutant: the check also compares groups that were only read.
canApplyTxn_noskipM(h, td) ==
    \A rk \in DOMAIN td.muts :
        LET mkey == groupMetaKey(<<rk[2], rk[3]>>)
        IN  curVersion(h.ents, mkey) = curVersion(Deref(td.snap).ents, mkey)

canApplyTxn(h, td) ==
    \A rk \in DOMAIN td.muts :
        \/ Len(td.muts[rk]) = 0
        \/ LET k == <<rk[2], rk[3]>>
               mkey == groupMetaKey(k)
               vHead == curVersion(h.ents, mkey)
               vSnap == curVersion(Deref(td.snap).ents, mkey)
           IN  vHead = vSnap

InitDs(b) ==
    /\ head = EmptyStore
    /\ snap = <<Snapshot(EmptyStore)>>
    /\ disableSpecialEntities = FALSE
    /\ txn = [t \in Txns |-> IdleTxn]
    /\ obs = <<>>
    /\ dsRet = NoRet
    /\ budget = b
    /\ beginHead = [t \in Txns |-> EmptyStore]
    /\ checkHead = [t \in Txns |-> EmptyStore]
    /\ conc = FALSE
    /\ touched = [t \in Txns |-> {}]
    /\ obsAt = <<>>
    /\ obsApplied = [t \in Txns |-> 0]
    /\ mcall = NoCall
    /\ blocks = <<>>

InitWith(b) == InitDs(b) /\ fp = NoPlan /\ qr = NoQuery

\* Two transaction threads; head is written by their commits and by the ID
\* allocation of their Puts.
Init == InitWith([ds |-> 0, snaps |-> 0,
                  ops |-> [t \in Txns |-> IF t = 1 THEN MaxTxnOps ELSE 1],
                  muts |-> [t \in Txns |-> MaxTxnOps]])

\* One transaction thread, one non-transactional writer and one observer
\* that takes snapshots of head.
InitObs == InitWith([ds |-> MaxDsOps, snaps |-> MaxSnaps,
                     ops |-> [t \in Txns |-> IF t = 1 THEN MaxTxnOps ELSE 0],
                     muts |-> [t \in Txns |-> MaxTxnOps]])

\* One transaction thread that keeps touching entity groups until it meets
\* the limit on groups; it records at most MaxLimitMuts mutations.
InitLimit == InitWith([ds |-> 0, snaps |-> 0,
                       ops |-> [t \in Txns |-> IF t = 1 THEN xgEGLimit + MaxTxnOps
                                               ELSE 0],
                       muts |-> [t \in Txns |-> MaxLimitMuts]])

\* ------------------------------------------------------------- operations
\* An incomplete key can be given only while the counter that completes it
\* stays inside the key universe.
IdRoom(h, k, n) ==
    \/ ~Incomplete(k)
    \/ IF Parent(k) = 0
       THEN curVersion(h.ents, rootIDsKey(Kind(k))) + n <= NumRoots
       ELSE curVersion(h.ents, groupIDsKey(k)) + n <= MaxChild

Touch(k) ==
    [t \in Txns |-> IF txn[t].st = "open" THEN touched[t] \cup {keyBytes(Root(k))}
                    ELSE touched[t]]

unchangedObs == UNCHANGED <<snap, obs, obsAt, obsApplied>>
unchangedPlan == UNCHANGED <<fp, mcall, qr>>
unchangedBlocks == UNCHANGED blocks

\* History of the ID blocks handed out.
idKeyOf(k) == IF Parent(k) = 0 THEN rootIDsKey(Kind(k)) ELSE groupIDsKey(k)
BlocksIn(b, row) == IF row \in DOMAIN b THEN b[row] ELSE <<>>
HandOut(b, row, first, n) ==
    [x \in DOMAIN b \cup {row} |->
        IF x = row THEN Append(BlocksIn(b, row), <<first, n>>) ELSE b[x]]
\* A Put of key k that came back with the key fixed.
PutHandsOut(k, fixed) ==
    blocks' = IF Incomplete(k) /\ ~Incomplete(fixed)
              THEN HandOut(blocks, idKeyOf(k), fixed[2], 1)
              ELSE blocks
\* The first n Puts of a call with several keys, special entities enabled.
RECURSIVE HandOutPuts(_, _, _, _, _)
HandOutPuts(b, ents, keys, i, n) ==
    IF i > n THEN b
    ELSE IF Incomplete(keys[i])
         THEN LET first == curVersion(ents, idKeyOf(keys[i])) + 1
              IN  HandOutPuts(HandOut(b, idKeyOf(keys[i]), first, 1),
                              collSet(ents, idKeyOf(keys[i]), first),
                              keys, i + 1, n)
         ELSE HandOutPuts(b, ents, keys, i + 1, n)
MultiPutHandsOut(keys, n) ==
    blocks' = IF disableSpecialEntities THEN blocks
              ELSE HandOutPuts(blocks, head.ents, keys, 1, n)
unchangedTxnHist == UNCHANGED <<beginHead, checkHead, conc>>
SpendDs == budget' = [budget EXCEPT !.ds = @ - 1]
SpendOp(t) == budget' = [budget EXCEPT !.ops[t] = @ - 1]
SpendMut(t) == budget' = [budget EXCEPT !.ops[t] = @ - 1, !.muts[t] = @ - 1]

\* dataStoreData.setDisableSpecialEntities: the argument is ignored.
SetDisableSpecialEntities(enabled) ==
    /\ unchangedPlan /\ unchangedBlocks
    /\ ~disableSpecialEntities
    /\ disableSpecialEntities' = TRUE
    /\ UNCHANGED <<head, txn, dsRet, budget, touched>>
    /\ unchangedObs /\ unchangedTxnHist

\* History: the mutations of each transaction that head holds now.
AppliedNow ==
    [t \in Txns |-> IF txn[t].st \in {"applying", "committed"}
                    THEN NumApplied(txn[t]) ELSE 0]

\* dataStoreData.takeSnapshot, called by the observer thread.
TakeSnapshot ==
    /\ unchangedPlan /\ unchangedBlocks
    /\ budget.snaps > 0
    /\ budget' = [budget EXCEPT !.snaps = @ - 1]
    /\ obs' = <<takeSnapshot(head)>>
    /\ obsAt' = <<head>>
    /\ obsApplied' = AppliedNow
    /\ dsRet' = Ret("takeSnapshot", NoKey, 0, "")
    /\ UNCHANGED <<head, snap, disableSpecialEntities, txn, touched>>
    /\ unchangedTxnHist

\* dataStoreData.getQuerySnaps, called by the observer thread.
GetQuerySnaps(consistent) ==
    /\ unchangedPlan /\ unchangedBlocks
    /\ budget.snaps > 0
    /\ budget' = [budget EXCEPT !.snaps = @ - 1]
    /\ obs' = getQuerySnaps(head, snap, consistent)
    /\ obsAt' = <<IF snap = <<>> \/ consistent THEN head ELSE Deref(snap[1]), head>>
    /\ obsApplied' = AppliedNow
    /\ dsRet' = Ret("getQuerySnaps", NoKey, BoolVal(consistent), "")
    /\ UNCHANGED <<head, snap, disableSpecialEntities, txn, touched>>
    /\ unchangedTxnHist

\* dataStoreData.setConsistent.
SetConsistent(always) ==
    /\ unchangedPlan /\ unchangedBlocks
    /\ budget.ds > 0
    /\ SpendDs
    /\ snap' = setConsistent(head, always)
    /\ dsRet' = Ret("setConsistent", NoKey, BoolVal(always), "")
    /\ UNCHANGED <<head, disableSpecialEntities, txn, touched,
                   obs, obsAt, obsApplied>>
    /\ unchangedTxnHist

\* dataStoreData.catchupIndexes.
CatchupIndexes ==
    /\ unchangedPlan /\ unchangedBlocks
    /\ budget.ds > 0
    /\ SpendDs
    /\ snap' = catchupIndexes(head, snap)
    /\ dsRet' = Ret("catchupIndexes", NoKey, 0, "")
    /\ UNCHANGED <<head, disableSpecialEntities, txn, touched,
                   obs, obsAt, obsApplied>>
    /\ unchangedTxnHist

\* dataStoreData.setSnapshot, given nil or a handle the observer holds.
SetSnapshot(arg) ==
    /\ unchangedPlan /\ unchangedBlocks
    /\ budget.ds > 0
    /\ SpendDs
    /\ snap' = setSnapshot(snap, arg)
    /\ dsRet' = Ret("setSnapshot", NoKey, 0, "")
    /\ UNCHANGED <<head, disableSpecialEntities, txn, touched,
                   obs, obsAt, obsApplied>>
    /\ unchangedTxnHist

\* dataStoreData.putMulti with one key, outside a transaction.
DsPut(k, v) ==
    /\ unchangedPlan
    /\ budget.ds > 0
    /\ IdRoom(head, k, 1)
    /\ LET r == putLocked(head, disableSpecialEntities, k, v)
       IN  /\ head' = r.head
           /\ PutHandsOut(k, r.key)
           /\ dsRet' = Ret("putMulti", r.key, v, r.err)
           /\ touched' = IF r.err = "" THEN Touch(r.key) ELSE touched
    /\ SpendDs
    /\ UNCHANGED <<disableSpecialEntities, txn>>
    /\ unchangedObs /\ unchangedTxnHist

\* dataStoreData.delMulti with one key, outside a transaction.
DsDel(k) ==
    /\ unchangedPlan /\ unchangedBlocks
    /\ budget.ds > 0
    /\ head' = delLocked(head, disableSpecialEntities, k)
    /\ dsRet' = Ret("delMulti", k, 0, "")
    /\ touched' = Touch(k)
    /\ SpendDs
    /\ UNCHANGED <<disableSpecialEntities, txn>>
    /\ unchangedObs /\ unchangedTxnHist

\* dataStoreData.allocateIDs.
AllocateIDs(k, n) ==
    /\ unchangedPlan
    /\ budget.ds > 0
    /\ IdRoom(head, k, n)
    /\ LET a == allocateIDsLocked(disableSpecialEntities,
                                  mutableEntsLocked(head), k, n)
       IN  /\ head' = [head EXCEPT !.ents = a.ents]
           /\ blocks' = IF a.err = ""
                         THEN HandOut(blocks, idKeyOf(k), a.ret, n)
                         ELSE blocks
           /\ dsRet' = Ret("allocateIDs", k, a.ret, a.err)
    /\ SpendDs
    /\ UNCHANGED <<disableSpecialEntities, txn, touched>>
    /\ unchangedObs /\ unchangedTxnHist

\* RunInTransaction begins: dataStoreData.mkTxn.
MkTxn(t, xg) ==
    /\ unchangedPlan /\ unchangedBlocks
    /\ txn[t].st = "idle"
    /\ budget.ops[t] > 0
    /\ txn' = [txn EXCEPT ![t] = mkTxn(head, xg)]
    /\ beginHead' = [beginHead EXCEPT ![t] = head]
    /\ conc' = (conc \/ \E u \in Txns \ {t} : txn[u].st \in Active)
    /\ touched' = [touched EXCEPT ![t] = {}]
    /\ UNCHANGED <<head, disableSpecialEntities, dsRet, budget, checkHead>>
    /\ unchangedObs

Expired == "datastore: transaction context has expired"
EndedTwice == "panic: cannot end transaction twice"

\* Mutant: run does not look at the closed flag.
run_letthroughM(td) == ""

\* txnDataStoreData.run(f): the error it returns instead of calling f, or ""
\* when it calls f.
run(td) == IF td.closed = 1 THEN Expired ELSE ""

\* txnDataStoreData.endTxn: the new closed flag, and whether it panics.
endTxn(td) ==
    IF td.closed = 1
    THEN [closed |-> td.closed, panic |-> TRUE]
    ELSE [closed |-> 1, panic |-> FALSE]

\* txnDataStoreData.run lets the call through while the transaction is open.
CanRun(t) ==
    /\ txn[t].st = "open"
    /\ run(txn[t]) = ""
    /\ budget.ops[t] > 0

\* getMultiInner for one key of the collection ents.
getMultiInner(ents, k) ==
    LET pdata == collGet(ents, keyBytes(k))
    IN  IF pdata = 0 THEN Ret("getMulti", k, 0, "ErrNoSuchEntity")
        ELSE Ret("getMulti", k, pdata, "")

\* Mutant: Get inside a transaction reads the live head.
txnGetMulti_headM(td, k) ==
    LET w == writeMutation(td, TRUE, k, 0)
    IN  IF w.err # ""
        THEN [muts |-> td.muts, ret |-> Ret("getMulti", k, 0, w.err)]
        ELSE [muts |-> w.muts, ret |-> getMultiInner(head.ents, k)]

\* txnDataStoreData.getMulti with one key: the new mutation map and what
\* the caller gets.
txnGetMulti(td, k) ==
    LET w == writeMutation(td, TRUE, k, 0)
    IN  IF w.err # ""
        THEN [muts |-> td.muts, ret |-> Ret("getMulti", k, 0, w.err)]
        ELSE [muts |-> w.muts, ret |-> getMultiInner(Deref(td.snap).ents, k)]

TxnGet(t, k) ==
    /\ unchangedPlan /\ unchangedBlocks
    /\ CanRun(t)
    /\ LET r == txnGetMulti(txn[t], k)
       IN  txn' = [txn EXCEPT ![t].muts = r.muts, ![t].ret = r.ret]
    /\ SpendOp(t)
    /\ UNCHANGED <<head, disableSpecialEntities, dsRet, touched>>
    /\ unchangedObs /\ unchangedTxnHist

\* Mutant: Put inside a transaction also writes the entity through to head.
txnPutMulti_throughM(td, h, dis, k, v) ==
    LET p == putLocked(h, dis, k, v)
        w == writeMutation(td, FALSE, p.key, v)
    IN  [head |-> p.head,
         muts |-> IF p.err = "" THEN w.muts ELSE td.muts,
         ret |-> Ret("putMulti", p.key, v, IF p.err = "" THEN w.err ELSE p.err)]

\* Mutant: the key is recorded as given, so an incomplete key is completed
\* only when the commit applies the mutation.
txnPutMulti_lateM(td, h, dis, k, v) ==
    LET w == writeMutation(td, FALSE, k, v)
    IN  [head |-> h, muts |-> w.muts, ret |-> Ret("putMulti", k, v, w.err)]

\* txnDataStoreData.putMulti with one key: the key is completed against head
\* under the head lock, the mutation is recorded in the transaction.
txnPutMulti(td, h, dis, k, v) ==
    LET f == fixKeyLocked(dis, mutableEntsLocked(h), k)
        w == writeMutation(td, FALSE, f.key, v)
    IN  [head |-> [h EXCEPT !.ents = f.ents],
         muts |-> IF f.err = "" THEN w.muts ELSE td.muts,
         ret |-> Ret("putMulti", f.key, v, IF f.err = "" THEN w.err ELSE f.err)]

TxnPut(t, k, v) ==
    /\ unchangedPlan
    /\ CanRun(t)
    /\ budget.muts[t] > 0
    /\ IdRoom(head, k, 1)
    /\ LET r == txnPutMulti(txn[t], head, disableSpecialEntities, k, v)
       IN  /\ head' = r.head
           /\ PutHandsOut(k, r.ret.key)
           /\ txn' = [txn EXCEPT ![t].muts = r.muts, ![t].ret = r.ret]
    /\ SpendMut(t)
    /\ UNCHANGED <<disableSpecialEntities, dsRet, touched>>
    /\ unchangedObs /\ unchangedTxnHist

\* txnDataStoreData.delMulti with one key.
txnDelMulti(td, h, k) ==
    LET w == writeMutation(td, FALSE, k, 0)
    IN  [head |-> h, muts |-> w.muts, ret |-> Ret("delMulti", k, 0, w.err)]

TxnDel(t, k) ==
    /\ unchangedPlan /\ unchangedBlocks
    /\ CanRun(t)
    /\ budget.muts[t] > 0
    /\ LET r == txnDelMulti(txn[t], head, k)
       IN  /\ head' = r.head
           /\ txn' = [txn EXCEPT ![t].muts = r.muts, ![t].ret = r.ret]
    /\ SpendMut(t)
    /\ UNCHANGED <<disableSpecialEntities, dsRet, touched>>
    /\ unchangedObs /\ unchangedTxnHist

\* The transaction body returns an error: no commit is attempted.
Abort(t) ==
    /\ unchangedPlan /\ unchangedBlocks
    /\ txn[t].st = "open"
    /\ txn' = [txn EXCEPT ![t].st = "aborted", ![t].ret = NoRet]
    /\ UNCHANGED <<head, disableSpecialEntities, dsRet, budget, touched>>
    /\ unchangedObs /\ unchangedTxnHist

\* The commit's check, dataStoreData.canApplyTxn: it takes no lock on head.
CanApplyTxn(t) ==
    /\ unchangedPlan /\ unchangedBlocks
    /\ txn[t].st = "open"
    /\ LET ok == canApplyTxn(head, txn[t])
       IN  txn' = [txn EXCEPT
                ![t].st = IF ~ok THEN "failed"
                          ELSE IF Written(txn[t]) = {} THEN "committed"
                          ELSE "applying",
                ![t].ret = Ret("canApplyTxn", NoKey, IF ok THEN 1 ELSE 0, "")]
    /\ checkHead' = [checkHead EXCEPT ![t] = head]
    /\ UNCHANGED <<head, disableSpecialEntities, dsRet, budget, touched>>
    /\ UNCHANGED <<beginHead, conc>>
    /\ unchangedObs

\* One mutation of dataStoreData.applyTxn: a putMulti or delMulti of one key,
\* each under its own acquisition of the head lock.  The groups are visited
\* in map order (any order), the mutations of a group in recorded order.
ApplyTxn(t) ==
    /\ unchangedPlan /\ unchangedBlocks
    /\ txn[t].st = "applying"
    /\ \E rk \in Written(txn[t]) \ txn[t].adone :
        /\ txn[t].agrp \in {NoRk, rk}
        /\ LET td == txn[t]
               m == td.muts[rk][td.ai + 1]
               last == td.ai + 1 = Len(td.muts[rk])
               done == IF last THEN td.adone \cup {rk} ELSE td.adone
           IN  /\ head' = IF m.data = 0
                          THEN delLocked(head, disableSpecialEntities, m.key)
                          ELSE putLocked(head, disableSpecialEntities,
                                         m.key, m.data).head
               /\ txn' = [txn EXCEPT
                    ![t].agrp = IF last THEN NoRk ELSE rk,
                    ![t].ai = IF last THEN 0 ELSE td.ai + 1,
                    ![t].adone = done,
                    ![t].st = IF done = Written(td) THEN "committed"
                              ELSE "applying"]
    /\ UNCHANGED <<disableSpecialEntities, dsRet, budget, touched>>
    /\ unchangedObs /\ unchangedTxnHist

\* txnDataStoreData.endTxn, run when RunInTransaction returns.
EndTxn(t) ==
    /\ unchangedPlan /\ unchangedBlocks
    /\ txn[t].st \in Ended
    /\ txn[t].closed = 0
    /\ txn' = [txn EXCEPT ![t].closed = endTxn(txn[t]).closed]
    /\ UNCHANGED <<head, disableSpecialEntities, dsRet, budget, touched>>
    /\ unchangedObs /\ unchangedTxnHist

\* A further call of endTxn on a transaction that was ended.
EndTxnAgain(t) ==
    /\ unchangedPlan /\ unchangedBlocks
    /\ txn[t].st \in Ended
    /\ txn[t].closed = 1
    /\ LET r == endTxn(txn[t])
       IN  txn' = [txn EXCEPT
                ![t].closed = r.closed,
                ![t].ret = Ret("endTxn", NoKey, 0,
                               IF r.panic THEN EndedTwice ELSE "")]
    /\ UNCHANGED <<head, disableSpecialEntities, dsRet, budget, touched>>
    /\ unchangedObs /\ unchangedTxnHist

\* A Get or Delete through run(f) on a transaction context kept after
\* RunInTransaction returned.
TxnCallEnded(t, op, k) ==
    /\ unchangedPlan /\ unchangedBlocks
    /\ txn[t].st \in Ended
    /\ txn[t].closed = 1
    /\ budget.ops[t] > 0
    /\ LET e == run(txn[t])
           r == IF op = "getMulti" THEN txnGetMulti(txn[t], k)
                ELSE [muts |-> txnDelMulti(txn[t], head, k).muts,
                      ret |-> txnDelMulti(txn[t], head, k).ret]
       IN  txn' = IF e # ""
                  THEN [txn EXCEPT ![t].ret = Ret(op, k, 0, e)]
                  ELSE [txn EXCEPT ![t].muts = r.muts, ![t].ret = r.ret]
    /\ SpendOp(t)
    /\ UNCHANGED <<head, disableSpecialEntities, dsRet, touched>>
    /\ unchangedObs /\ unchangedTxnHist

TxnNext ==
    \/ \E t \in Txns, xg \in BOOLEAN : MkTxn(t, xg)
    \/ \E t \in Txns, k \in InComplete : TxnGet(t, k)
    \/ \E t \in Txns, k \in InKeys, v \in Vals : TxnPut(t, k, v)
    \/ \E t \in Txns, k \in InComplete : TxnDel(t, k)
    \/ \E t \in Txns : Abort(t)
    \/ \E t \in Txns : CanApplyTxn(t)
    \/ \E t \in Txns : ApplyTxn(t)
    \/ \E t \in Txns : EndTxn(t)

Next == TxnNext

Spec == Init /\ [][Next]_vars

NextObs ==
    \/ \E enabled \in BOOLEAN : SetDisableSpecialEntities(enabled)
    \/ TakeSnapshot
    \/ \E consistent \in BOOLEAN : GetQuerySnaps(consistent)
    \/ \E always \in BOOLEAN : SetConsistent(always)
    \/ CatchupIndexes
    \/ \E k \in InKeys, v \in Vals : DsPut(k, v)
    \/ \E k \in InComplete : DsDel(k)
    \/ \E k \in InKeys \ InComplete, n \in 1..NumRoots : AllocateIDs(k, n)
    \/ TxnNext

SpecObs == InitObs /\ [][NextObs]_vars

\* ------------------------------------------------- calls with several keys
\* Each returns the new head (and muts), the callback invocations made, the
\* number n of items read or written, and the error returned.
RECURSIVE putMultiFrom(_, _, _, _, _, _, _)
putMultiFrom(h, dis, keys, vals, cb, i, calls) ==
    IF i > Len(keys)
    THEN [head |-> h, calls |-> calls, n |-> i - 1, err |-> ""]
    ELSE LET r == putLocked(h, dis, keys[i], vals[i])
             c == Invoke(cb, calls, Ret("putMulti", r.key, vals[i], r.err))
             e == CbRet(cb, i)
         IN  IF e # ""
             THEN [head |-> r.head, calls |-> c, n |-> i,
                   err |-> IF e = "Stop" THEN "" ELSE e]
             ELSE putMultiFrom(r.head, dis, keys, vals, cb, i + 1, c)

\* dataStoreData.putMulti.
putMulti(h, dis, keys, vals, cb) == putMultiFrom(h, dis, keys, vals, cb, 1, <<>>)

RECURSIVE delMultiFrom(_, _, _, _, _, _)
delMultiFrom(h, dis, keys, cb, i, calls) ==
    IF i > Len(keys)
    THEN [head |-> h, calls |-> calls, n |-> i - 1, err |-> ""]
    ELSE LET h1 == delLocked(h, dis, keys[i])
             c == Invoke(cb, calls, Ret("delMulti", keys[i], 0, ""))
             e == CbRet(cb, i)
         IN  IF e # ""
             THEN [head |-> h1, calls |-> c, n |-> i,
                   err |-> IF e = "Stop" THEN "" ELSE e]
             ELSE delMultiFrom(h1, dis, keys, cb, i + 1, c)

\* dataStoreData.delMulti: mutableEntsLocked creates the collection, so the
\* namespace always has one.
delMulti(h, dis, keys, cb) == delMultiFrom(h, dis, keys, cb, 1, <<>>)

\* getMultiInner over all keys: what the callback returns is dropped.
RECURSIVE getMultiInnerFrom(_, _, _, _, _)
getMultiInnerFrom(ents, keys, cb, i, calls) ==
    IF i > Len(keys)
    THEN [calls |-> calls, n |-> i - 1, err |-> ""]
    ELSE getMultiInnerFrom(ents, keys, cb, i + 1,
                           Append(calls, getMultiInner(ents, keys[i])))

\* dataStoreData.getMulti.
getMulti(h, keys, cb) ==
    getMultiInnerFrom(Deref(takeSnapshot(h)).ents, keys, cb, 1, <<>>)

\* txnDataStoreData.putMulti: it has no result and drops the callback's.
RECURSIVE txnPutMultiFrom(_, _, _, _, _, _, _, _)
txnPutMultiFrom(td, h, dis, keys, vals, cb, i, calls) ==
    IF i > Len(keys)
    THEN [head |-> h, muts |-> td.muts, calls |-> calls, n |-> i - 1, err |-> ""]
    ELSE LET r == txnPutMulti(td, h, dis, keys[i], vals[i])
         IN  txnPutMultiFrom([td EXCEPT !.muts = r.muts], r.head, dis, keys,
                             vals, cb, i + 1, Invoke(cb, calls, r.ret))

txnPutMultiAll(td, h, dis, keys, vals, cb) ==
    txnPutMultiFrom(td, h, dis, keys, vals, cb, 1, <<>>)

\* The loop of txnDataStoreData.getMulti that records the groups.
RECURSIVE txnGetGroupsFrom(_, _, _)
txnGetGroupsFrom(td, keys, i) ==
    IF i > Len(keys) THEN [muts |-> td.muts, err |-> ""]
    ELSE LET w == writeMutation(td, TRUE, keys[i], 0)
         IN  IF w.err # "" THEN [muts |-> td.muts, err |-> w.err]
             ELSE txnGetGroupsFrom([td EXCEPT !.muts = w.muts], keys, i + 1)

\* txnDataStoreData.getMulti.
txnGetMultiAll(td, keys, cb) ==
    LET g == txnGetGroupsFrom(td, keys, 1)
    IN  IF g.err # ""
        THEN [muts |-> g.muts, calls |-> <<>>, n |-> 0, err |-> g.err]
        ELSE LET r == getMultiInnerFrom(Deref(td.snap).ents, keys, cb, 1, <<>>)
             IN  [muts |-> g.muts, calls |-> r.calls, n |-> r.n, err |-> r.err]

\* txnDataStoreData.delMulti: it drops what the callback returns.
RECURSIVE txnDelMultiFrom(_, _, _, _, _, _)
txnDelMultiFrom(td, h, keys, cb, i, calls) ==
    IF i > Len(keys)
    THEN [muts |-> td.muts, calls |-> calls, n |-> i - 1, err |-> ""]
    ELSE LET r == txnDelMulti(td, h, keys[i])
         IN  txnDelMultiFrom([td EXCEPT !.muts = r.muts], h, keys, cb, i + 1,
                             Invoke(cb, calls, r.ret))

txnDelMultiAll(td, h, keys, cb) == txnDelMultiFrom(td, h, keys, cb, 1, <<>>)

\* The arguments of the calls: up to MaxMultiKeys keys, every entity with
\* the same value, and a callback.
MultiKeyPool == {<<0, 1>>, <<1, 1>>, <<0, 0>>}
KeyLists(pool) == UNION {[1..n -> pool] : n \in 1..MaxMultiKeys}
ValsFor(keys) == [i \in 1..Len(keys) |-> 1]
Cbs(keys) ==
    {NilCb} \cup {[nil |-> FALSE, at |-> i, ret |-> r] :
                    i \in 0..Len(keys), r \in {"Stop", "callback error"}}
Call(op, t, keys, cb, r) ==
    [op |-> op, txn |-> t, keys |-> keys, cb |-> cb,
     calls |-> r.calls, n |-> r.n, err |-> r.err]

MultiPut(keys, cb) ==
    /\ budget.ds > 0
    /\ SpendDs
    /\ LET r == putMulti(head, disableSpecialEntities, keys, ValsFor(keys), cb)
       IN  /\ head' = r.head
           /\ mcall' = Call("putMulti", 0, keys, cb, r)
           /\ MultiPutHandsOut(keys, r.n)
    /\ UNCHANGED <<fp, qr, disableSpecialEntities, txn, dsRet, touched>>
    /\ unchangedObs /\ unchangedTxnHist

MultiDel(keys, cb) ==
    /\ budget.ds > 0
    /\ SpendDs
    /\ LET r == delMulti(head, disableSpecialEntities, keys, cb)
       IN  /\ head' = r.head
           /\ mcall' = Call("delMulti", 0, keys, cb, r)
    /\ UNCHANGED <<fp, qr, blocks, disableSpecialEntities, txn, dsRet, touched>>
    /\ unchangedObs /\ unchangedTxnHist

MultiGet(keys, cb) ==
    /\ budget.ds > 0
    /\ SpendDs
    /\ ~cb.nil
    /\ mcall' = Call("getMulti", 0, keys, cb, getMulti(head, keys, cb))
    /\ UNCHANGED <<fp, qr, blocks, head, disableSpecialEntities, txn, dsRet, touched>>
    /\ unchangedObs /\ unchangedTxnHist

TxnMultiPut(t, keys, cb) ==
    /\ CanRun(t)
    /\ SpendOp(t)
    /\ LET r == txnPutMultiAll(txn[t], head, disableSpecialEntities, keys,
                               ValsFor(keys), cb)
       IN  /\ head' = r.head
           /\ txn' = [txn EXCEPT ![t].muts = r.muts]
           /\ mcall' = Call("putMulti", t, keys, cb, r)
           /\ MultiPutHandsOut(keys, r.n)
    /\ UNCHANGED <<fp, qr, disableSpecialEntities, dsRet, touched>>
    /\ unchangedObs /\ unchangedTxnHist

TxnMultiGet(t, keys, cb) ==
    /\ CanRun(t)
    /\ SpendOp(t)
    /\ ~cb.nil
    /\ LET r == txnGetMultiAll(txn[t], keys, cb)
       IN  /\ txn' = [txn EXCEPT ![t].muts = r.muts]
           /\ mcall' = Call("getMulti", t, keys, cb, r)
    /\ UNCHANGED <<fp, qr, blocks, head, disableSpecialEntities, dsRet, touched>>
    /\ unchangedObs /\ unchangedTxnHist

TxnMultiDel(t, keys, cb) ==
    /\ CanRun(t)
    /\ SpendOp(t)
    /\ LET r == txnDelMultiAll(txn[t], head, keys, cb)
       IN  /\ txn' = [txn EXCEPT ![t].muts = r.muts]
           /\ mcall' = Call("delMulti", t, keys, cb, r)
    /\ UNCHANGED <<fp, qr, blocks, head, disableSpecialEntities, dsRet, touched>>
    /\ unchangedObs /\ unchangedTxnHist

\* One caller of the head datastore and one cross-group transaction, both
\* making calls with several keys.
InitMulti == InitWith([ds |-> MaxMultiCalls, snaps |-> 0,
                       ops |-> [t \in Txns |-> IF t = 1 THEN MaxMultiCalls
                                               ELSE 0],
                       muts |-> [t \in Txns |-> 0]])

NextMulti ==
    \/ \E keys \in KeyLists(MultiKeyPool) : \E cb \in Cbs(keys) : MultiPut(keys, cb)
    \/ \E keys \in KeyLists(MultiKeyPool \ {<<0, 0>>}) : \E cb \in Cbs(keys) :
          MultiDel(keys, cb)
    \/ \E keys \in KeyLists(MultiKeyPool \ {<<0, 0>>}) : \E cb \in Cbs(keys) :
          MultiGet(keys, cb)
    \/ \E xg \in BOOLEAN : MkTxn(1, xg)
    \/ \E keys \in KeyLists(MultiKeyPool) : \E cb \in Cbs(keys) :
          TxnMultiPut(1, keys, cb)
    \/ \E keys \in KeyLists(MultiKeyPool \ {<<0, 0>>}) : \E cb \in Cbs(keys) :
          TxnMultiGet(1, keys, cb)
    \/ \E keys \in KeyLists(MultiKeyPool \ {<<0, 0>>}) : \E cb \in Cbs(keys) :
          TxnMultiDel(1, keys, cb)
    \/ CanApplyTxn(1)
    \/ ApplyTxn(1)
    \/ EndTxn(1)

SpecMulti == InitMulti /\ [][NextMulti]_vars

\* One transaction thread whose context is used after the transaction
\* ended.
InitClosed == InitWith([ds |-> 0, snaps |-> 0,
                        ops |-> [t \in Txns |-> IF t = 1 THEN MaxClosedOps ELSE 0],
                        muts |-> [t \in Txns |-> MaxTxnOps]])

NextClosed ==
    \/ TxnNext
    \/ \E t \in Txns : EndTxnAgain(t)
    \/ \E t \in Txns, op \in {"getMulti", "delMulti"}, k \in InComplete :
          TxnCallEnded(t, op, k)

SpecClosed == InitClosed /\ [][NextClosed]_vars

\* One writer that also switches the consistency mode and moves the
\* lagging snapshot, one transaction thread and one observer that queries.
InitMode == InitWith([ds |-> MaxModeOps, snaps |-> MaxSnaps + 1,
                      ops |-> [t \in Txns |-> IF t = 1 THEN 1 ELSE 0],
                      muts |-> [t \in Txns |-> 1]])

ModeKeys == {<<0, 1>>, <<0, 0>>}

NextMode ==
    \/ TakeSnapshot
    \/ \E consistent \in BOOLEAN : GetQuerySnaps(consistent)
    \/ \E always \in BOOLEAN : SetConsistent(always)
    \/ CatchupIndexes
    \/ \E arg \in {<<>>} \cup {<<obs[i]>> : i \in 1..Len(obs)} : SetSnapshot(arg)
    \/ \E k \in ModeKeys, v \in Vals : DsPut(k, v)
    \/ \E k \in ModeKeys \ {<<0, 0>>} : DsDel(k)
    \/ \E k \in {<<0, 0>>} : AllocateIDs(k, 1)
    \/ \E xg \in {FALSE} : MkTxn(1, xg)
    \/ \E k \in ModeKeys, v \in Vals : TxnPut(1, k, v)
    \/ CanApplyTxn(1)
    \/ ApplyTxn(1)
    \/ EndTxn(1)

SpecMode == InitMode /\ [][NextMode]_vars

\* makeFetchPlan is called with facts f: one cache outcome per key, the
\* fetcher's nonce, with or without a meta getter.
InitPlan ==
    /\ InitDs([ds |-> 0, snaps |-> 0, ops |-> [t \in Txns |-> 0],
               muts |-> [t \in Txns |-> 0]])
    /\ qr = NoQuery
    /\ \E n \in 0..MaxKeys, gm \in BOOLEAN, nonce \in Nonces :
         \E raw \in [1..n -> ItemFlagValues \cup {NoItem}] :
            fp = [f |-> [getMeta |-> gm, nonce |-> nonce,
                         lockItems |-> [i \in 1..n |-> ItemAt(i, raw[i])]],
                  p |-> newPlan(gm, n), i |-> 1]

PlanDone == fp.i = Len(fp.f.lockItems) + 1

\* One iteration of the loop of makeFetchPlan.
PlanStep ==
    /\ fp.i \in 1..Len(fp.f.lockItems)
    /\ fp' = [fp EXCEPT !.p = planItem(fp.p, fp.f, fp.i), !.i = @ + 1]
    /\ UNCHANGED <<head, snap, disableSpecialEntities, txn, obs, dsRet, budget,
                   beginHead, checkHead, conc, touched, obsAt, obsApplied,
                   mcall, blocks, qr>>

NextPlan == PlanStep

SpecPlan == InitPlan /\ [][NextPlan]_vars

\* Entity groups are interchangeable, so the thread that runs into the
\* group limit names the first group, the group it recorded last or the
\* next new group, by its root key or (for group 1) by a child key.
LimitKeys(t) ==
    LET n == Cardinality(DOMAIN txn[t].muts)
    IN  {<<0, g>> : g \in {1, n, n + 1} \ {0}} \cup {<<1, 1>>}

NextLimit ==
    \/ \E t \in Txns, xg \in BOOLEAN : MkTxn(t, xg)
    \/ \E t \in Txns : \E k \in LimitKeys(t) : TxnGet(t, k)
    \/ \E t \in Txns : \E k \in LimitKeys(t), v \in Vals : TxnPut(t, k, v)
    \/ \E t \in Txns : \E k \in LimitKeys(t) : TxnDel(t, k)
    \/ \E t \in Txns : Abort(t)

SpecLimit == InitLimit /\ [][NextLimit]_vars

\* Callers that allocate IDs concurrently: one caller of head (allocateIDs
\* with good and bad n, Put of incomplete keys) and two transactions that
\* Put incomplete keys.
AllocSizes == {0 - 1, 0} \cup 1..NumRoots
InitAlloc == InitWith([ds |-> MaxAllocCalls, snaps |-> 0,
                       ops |-> [t \in Txns |-> 1],
                       muts |-> [t \in Txns |-> 1]])

NextAlloc ==
    \/ \E enabled \in BOOLEAN : SetDisableSpecialEntities(enabled)
    \/ \E k \in InKeys \ InComplete, n \in AllocSizes : AllocateIDs(k, n)
    \/ \E k \in InKeys \ InComplete, v \in Vals : DsPut(k, v)
    \/ \E t \in Txns, xg \in BOOLEAN : MkTxn(t, xg)
    \/ \E t \in Txns, k \in InKeys \ InComplete, v \in Vals : TxnPut(t, k, v)

SpecAlloc == InitAlloc /\ [][NextAlloc]_vars

\* One query is built, finalized and then reduced.
Cursors == {<<>>} \cup {<<curs(v, k)>> : v \in CursorVals, k \in QKeys}
FilterLists == UNION {[1..n -> Filters] : n \in 0..MaxFilters}
InitQuery ==
    /\ InitDs([ds |-> 0, snaps |-> 0, ops |-> [t \in Txns |-> 0],
               muts |-> [t \in Txns |-> 0]])
    /\ fp = NoPlan
    /\ \E fs \in FilterLists, sc \in Cursors, ec \in Cursors :
          qr = [NoQuery EXCEPT !.stage = "built", !.filters = fs,
                               !.startC = sc, !.endC = ec]

unchangedDs ==
    UNCHANGED <<head, snap, disableSpecialEntities, txn, obs, dsRet, budget,
                beginHead, checkHead, conc, touched, obsAt, obsApplied, fp,
                mcall, blocks>>

\* q.Finalize(): an error ends the query.
FinalizeQuery ==
    /\ qr.stage = "built"
    /\ LET fq == Finalize(qr.filters)
       IN  qr' = [qr EXCEPT !.fq = fq, !.err = fq.err,
                            !.stage = IF fq.err = "" THEN "finalized" ELSE "done"]
    /\ unchangedDs

\* reduce(fq, ...).
ReduceQuery ==
    /\ qr.stage = "finalized"
    /\ LET rq == reduce(qr.fq, qr.startC, qr.endC)
       IN  qr' = [qr EXCEPT !.rq = rq, !.err = rq.err, !.stage = "done"]
    /\ unchangedDs

NextQuery == FinalizeQuery \/ ReduceQuery

SpecQuery == InitQuery /\ [][NextQuery]_vars

\* A query is built call by call, finalized, and the finalized query is
\* finalized again.
InitOrders ==
    /\ InitDs([ds |-> 0, snaps |-> 0, ops |-> [t \in Txns |-> 0],
               muts |-> [t \in Txns |-> 0]])
    /\ fp = NoPlan
    /\ qr = [stage |-> "building", calls |-> <<>>, q |-> NewQuery,
             fq |-> FinalizeOrders(NewQuery), fq2 |-> FinalizeOrders(NewQuery)]

\* q.Eq(prop, ...) or q.Order(col).
BuilderCall(c) ==
    /\ qr.stage = "building"
    /\ Len(qr.calls) < MaxBuilderCalls
    /\ qr' = [qr EXCEPT !.calls = Append(@, c),
                        !.q = IF c.op = "Eq" THEN Eq(@, c.prop) ELSE Order(@, c.col)]
    /\ unchangedDs

FinalizeOrdersCall ==
    /\ qr.stage = "building"
    /\ qr' = [qr EXCEPT !.stage = "finalized", !.fq = FinalizeOrders(qr.q)]
    /\ unchangedDs

FinalizeAgain ==
    /\ qr.stage = "finalized"
    /\ qr' = [qr EXCEPT !.stage = "refinalized",
                        !.fq2 = FinalizeOrders(Requery(qr.fq))]
    /\ unchangedDs

NextOrders ==
    \/ \E c \in BuilderCalls : BuilderCall(c)
    \/ FinalizeOrdersCall
    \/ FinalizeAgain

SpecOrders == InitOrders /\ [][NextOrders]_vars

\* A second thread uses the context of transaction t: run tests closed
\* without a lock and then calls f.
RunCheck(t) ==
    /\ unchangedPlan /\ unchangedBlocks
    /\ txn[t].st # "idle"
    /\ ~txn[t].inRun
    /\ budget.ops[t] > 0
    /\ LET e == run(txn[t])
       IN  txn' = IF e # ""
                  THEN [txn EXCEPT ![t].ret = Ret("run", NoKey, 0, e)]
                  ELSE [txn EXCEPT ![t].inRun = TRUE]
    /\ SpendOp(t)
    /\ UNCHANGED <<head, disableSpecialEntities, dsRet, touched>>
    /\ unchangedObs /\ unchangedTxnHist

\* The f of a putMulti (v > 0) or delMulti (v = 0) of one complete key,
\* called by run: writeMutation under the transaction's own lock.
RunBody(t, k, v) ==
    /\ unchangedPlan /\ unchangedBlocks
    /\ txn[t].inRun
    /\ LET w == writeMutation(txn[t], FALSE, k, v)
       IN  txn' = [txn EXCEPT
                ![t].muts = w.muts,
                ![t].inRun = FALSE,
                ![t].ret = Ret(IF v = 0 THEN "delMulti" ELSE "putMulti", k, v, w.err)]
    /\ UNCHANGED <<head, disableSpecialEntities, dsRet, budget, touched>>
    /\ unchangedObs /\ unchangedTxnHist

InitRace == InitWith([ds |-> 0, snaps |-> 0,
                      ops |-> [t \in Txns |-> IF t = 1 THEN MaxRaceOps ELSE 0],
                      muts |-> [t \in Txns |-> 1]])

NextRace ==
    \/ \E t \in Txns, xg \in BOOLEAN : MkTxn(t, xg)
    \/ \E t \in Txns, k \in InComplete, v \in Vals : TxnPut(t, k, v)
    \/ \E t \in Txns : RunCheck(t)
    \/ \E t \in Txns, k \in InComplete, v \in {0} \cup Vals : RunBody(t, k, v)
    \/ \E t \in Txns : Abort(t)
    \/ \E t \in Txns : CanApplyTxn(t)
    \/ \E t \in Txns : ApplyTxn(t)
    \/ \E t \in Txns : EndTxn(t)

SpecRace == InitRace /\ [][NextRace]_vars

\* --------------------------------------- calls with several keys, by key
\* Mutant: an error of the callback does not end the iteration.
putMultiItem_goonM(h, dis, keys, vals, cb, i, calls) ==
    LET r == putLocked(h, dis, keys[i], vals[i])
    IN  [head |-> r.head, key |-> r.key,
         calls |-> Invoke(cb, calls, Ret("putMulti", r.key, vals[i], r.err)),
         done |-> i = Len(keys), err |-> ""]

\* One iteration of dataStoreData.putMulti: the locked body for keys[i],
\* then the callback, whose error ends the call.
putMultiItem(h, dis, keys, vals, cb, i, calls) ==
    LET r == putLocked(h, dis, keys[i], vals[i])
        e == CbRet(cb, i)
    IN  [head |-> r.head, key |-> r.key,
         calls |-> Invoke(cb, calls, Ret("putMulti", r.key, vals[i], r.err)),
         done |-> e # "" \/ i = Len(keys),
         err |-> IF e = "Stop" THEN "" ELSE e]

\* One iteration of dataStoreData.delMulti.
delMultiItem(h, dis, keys, cb, i, calls) ==
    LET e == CbRet(cb, i)
    IN  [head |-> delLocked(h, dis, keys[i]), key |-> keys[i],
         calls |-> Invoke(cb, calls, Ret("delMulti", keys[i], 0, "")),
         done |-> e # "" \/ i = Len(keys),
         err |-> IF e = "Stop" THEN "" ELSE e]

NumIncomplete(keys) == Cardinality({i \in 1..Len(keys) : Incomplete(keys[i])})

\* Entry of putMulti or delMulti outside a transaction; qr holds the call
\* in progress: the next item, the callback invocations made so far, and as
\* history the head and the writers' budget at entry.
MultiBegin(op, keys, cb) ==
    /\ qr = NoQuery
    /\ budget.ds > 0
    /\ SpendDs
    /\ op = "putMulti" =>
          curVersion(head.ents, rootIDsKey("K")) + NumIncomplete(keys) <= NumRoots
    /\ qr' = [op |-> op, keys |-> keys, cb |-> cb, i |-> 1, calls |-> <<>>,
              from |-> head, ds |-> budget.ds - 1]
    /\ UNCHANGED <<head, fp, mcall, blocks, disableSpecialEntities, txn, dsRet,
                   touched>>
    /\ unchangedObs /\ unchangedTxnHist

\* One pass of the loop over the keys: one acquisition of the head lock.
MultiItem ==
    /\ qr # NoQuery
    /\ LET m == IF qr.op = "putMulti"
                THEN putMultiItem(head, disableSpecialEntities, qr.keys,
                                  ValsFor(qr.keys), qr.cb, qr.i, qr.calls)
                ELSE delMultiItem(head, disableSpecialEntities, qr.keys,
                                  qr.cb, qr.i, qr.calls)
       IN  /\ head' = m.head
           /\ IF qr.op = "putMulti" THEN PutHandsOut(qr.keys[qr.i], m.key)
              ELSE UNCHANGED blocks
           /\ IF m.done
              THEN /\ mcall' = Call(qr.op, 0, qr.keys, qr.cb,
                                    [calls |-> m.calls, n |-> qr.i, err |-> m.err])
                   /\ qr' = NoQuery
              ELSE /\ qr' = [qr EXCEPT !.i = @ + 1, !.calls = m.calls]
                   /\ UNCHANGED mcall
    /\ UNCHANGED <<fp, disableSpecialEntities, txn, dsRet, budget, touched>>
    /\ unchangedObs /\ unchangedTxnHist

\* One caller making calls with several keys, a second writer with single
\* keys and an observer that snapshots head.
InitSteps == InitWith([ds |-> MaxStepCalls, snaps |-> 1,
                       ops |-> [t \in Txns |-> 0],
                       muts |-> [t \in Txns |-> 0]])

NextSteps ==
    \/ \E keys \in KeyLists(MultiKeyPool) : \E cb \in Cbs(keys) :
          MultiBegin("putMulti", keys, cb)
    \/ \E keys \in KeyLists(MultiKeyPool \ {<<0, 0>>}) : \E cb \in Cbs(keys) :
          MultiBegin("delMulti", keys, cb)
    \/ MultiItem
    \/ TakeSnapshot
    \/ \E k \in MultiKeyPool \ {<<0, 0>>}, v \in Vals : DsPut(k, v)
    \/ \E k \in MultiKeyPool \ {<<0, 0>>} : DsDel(k)

SpecSteps == InitSteps /\ [][NextSteps]_vars

\* Two transactions of one call each, and special entities that are
\* switched off at some moment.
InitDisabled == InitWith([ds |-> 0, snaps |-> 0,
                          ops |-> [t \in Txns |-> 1],
                          muts |-> [t \in Txns |-> 1]])

NextDisabled ==
    \/ \E enabled \in BOOLEAN : SetDisableSpecialEntities(enabled)
    \/ TxnNext

SpecDisabled == InitDisabled /\ [][NextDisabled]_vars

\* ----------------------------------------------------------------- claims
Finished(t) == txn[t].st \in {"committed", "failed"}
Groups(t) == DOMAIN txn[t].muts
VersionRow(rk) == <<"__entity_group__", rk[3], 1>>

\* C1: of two concurrent transactions whose recorded entity-group sets
\* intersect (the shared group read or written), at most one commits.
C1_SharedGroupAtMostOneCommits ==
    \A t \in Txns, u \in Txns :
        (t # u /\ conc /\ Groups(t) \cap Groups(u) # {})
            => ~(txn[t].st = "committed" /\ txn[u].st = "committed")

\* C3: two transactions that begin from the same head and both record a
\* Put/Delete in one entity group (special entities enabled): exactly one
\* of them is applied, the other fails canApplyTxn.
C3_SameGroupExactlyOneApplied ==
    \A t \in Txns, u \in Txns :
        (/\ t # u
         /\ ~disableSpecialEntities
         /\ beginHead[t] = beginHead[u]
         /\ Finished(t) /\ Finished(u)
         /\ touched[t] = {} /\ touched[u] = {}
         /\ Written(txn[t]) \cap Written(txn[u]) # {})
            => (txn[t].st = "committed") # (txn[u].st = "committed")

\* C4: a transaction fails canApplyTxn only when another writer modified
\* one of its groups: two transactions with disjoint group sets, whose
\* groups no non-transactional writer touched, both commit, and a committed
\* transaction has had every mutation applied.
C4_DisjointBothCommit ==
    \A t \in Txns :
        /\ txn[t].st = "failed" =>
              \/ touched[t] \cap Groups(t) # {}
              \/ \E u \in Txns \ {t} : Groups(u) \cap Groups(t) # {}
        /\ txn[t].st = "committed" => NumApplied(txn[t]) = NumMuts(txn[t])

C4_Witness ==
    /\ conc
    /\ \A t \in Txns : txn[t].st = "committed" /\ Written(txn[t]) # {}
    /\ Groups(1) \cap Groups(2) = {}

\* C5: the commit check passes exactly when every group with at least one
\* recorded mutation has, in head at the time of the check, the version it
\* had when the transaction began; groups that were only read do not count.
C5_CanApplyIffWrittenVersionsEqual ==
    \A t \in Txns :
        txn[t].st \in {"applying", "committed", "failed"} =>
            ((txn[t].st # "failed") <=>
                \A rk \in Groups(t) :
                    Len(txn[t].muts[rk]) > 0 =>
                        collGet(checkHead[t].ents, VersionRow(rk))
                            = collGet(beginHead[t].ents, VersionRow(rk)))

\* A check that passed although a group the transaction only read had
\* advanced in head.
C5_Witness ==
    \E t \in Txns :
        /\ txn[t].st \in {"applying", "committed"}
        /\ Written(txn[t]) # {}
        /\ \E rk \in Groups(t) :
            /\ Len(txn[t].muts[rk]) = 0
            /\ collGet(checkHead[t].ents, VersionRow(rk))
                 # collGet(beginHead[t].ents, VersionRow(rk))

\* The step is a call of op made inside transaction t.
TxnCall(t, op) ==
    /\ budget'.ops[t] = budget.ops[t] - 1
    /\ txn'[t].ret.op = op

\* C8: Get inside a transaction returns what the key held in head when the
\* transaction began, whatever the transaction recorded and whatever was
\* written to head since; it records the key's group and appends no mutation.
C8_TxnGetReadsBeginSnapshot ==
    [][\A t \in Txns :
        (TxnCall(t, "getMulti") /\ txn'[t].ret.err \in {"", "ErrNoSuchEntity"}) =>
            LET r == txn'[t].ret
            IN  /\ r.val = collGet(beginHead[t].ents, keyBytes(r.key))
                /\ (r.err = "ErrNoSuchEntity") <=> (r.val = 0)
                /\ keyBytes(Root(r.key)) \in DOMAIN txn'[t].muts
                /\ \A rk \in DOMAIN txn'[t].muts :
                     txn'[t].muts[rk] = IF rk \in DOMAIN txn[t].muts
                                        THEN txn[t].muts[rk] ELSE <<>>]_vars

\* A Get of a key that the transaction has itself put or deleted and that
\* another writer has changed in head since the transaction began.
C8_Witness ==
    \E t \in Txns :
        LET r == txn[t].ret
        IN  /\ r.op = "getMulti" /\ r.err \in {"", "ErrNoSuchEntity"}
            /\ txn[t].st = "open"
            /\ collGet(head.ents, keyBytes(r.key)) # r.val
            /\ \E i \in 1..Len(txn[t].muts[keyBytes(Root(r.key))]) :
                 txn[t].muts[keyBytes(Root(r.key))][i].key = r.key

IDRows == {rootIDsKey("K")} \cup {groupIDsKey(k) : k \in RootKeys}
IDRowOf(key) == IF Parent(key) = 0 THEN rootIDsKey(Kind(key)) ELSE groupIDsKey(key)
ChangedRows ==
    {r \in DOMAIN head.ents \cup DOMAIN head'.ents :
        collGet(head'.ents, r) # collGet(head.ents, r)}

\* C9: Put and Delete inside a transaction change nothing in head but the
\* ID counter that completes an incomplete key; entity rows, group versions
\* and index rows of head change only in the writes of a commit that passed
\* its check or in non-transactional calls.
C9_TxnWritesLeaveHead ==
    [][/\ \A t \in Txns :
            (TxnCall(t, "putMulti") \/ TxnCall(t, "delMulti")) =>
                /\ head'.idx = head.idx
                /\ ChangedRows \subseteq IDRows
                /\ ChangedRows # {} =>
                     /\ txn'[t].ret.op = "putMulti"
                     /\ ChangedRows = {IDRowOf(txn'[t].ret.key)}
                     /\ collGet(head'.ents, IDRowOf(txn'[t].ret.key))
                          = txn'[t].ret.key[2]
                     /\ collGet(head.ents, IDRowOf(txn'[t].ret.key))
                          = txn'[t].ret.key[2] - 1
       /\ (head'.idx # head.idx \/ ~(ChangedRows \subseteq IDRows)) =>
            \/ budget'.ds = budget.ds - 1
            \/ \E t \in Txns :
                 /\ txn[t].st = "applying"
                 /\ txn[t].ret = Ret("canApplyTxn", NoKey, 1, "")
                 /\ NumApplied(txn'[t]) = NumApplied(txn[t]) + 1]_vars

\* A transaction that put under an incomplete key (the counter moved in
\* head) and deleted, and then failed its check or was aborted.
C9_Witness ==
    \E t \in Txns :
        /\ txn[t].st \in {"failed", "aborted"}
        /\ \E rk \in Groups(t) : \E i \in 1..Len(txn[t].muts[rk]) :
             LET m == txn[t].muts[rk][i]
             IN  /\ m.data # 0
                 /\ collGet(head.ents, IDRowOf(m.key)) >= m.key[2]
                 /\ collGet(head.ents, keyBytes(m.key)) = 0
        /\ \E rk \in Groups(t) : \E i \in 1..Len(txn[t].muts[rk]) :
             txn[t].muts[rk][i].data = 0

\* The mutations recorded in transaction t, and the keys they put.
Mutations(t) ==
    {txn[t].muts[rk][i] : <<rk, i>> \in
        {x \in Groups(t) \X (1..MaxTxnOps) : x[2] <= Len(txn[t].muts[x[1]])}}
PutKeys(t) == {m.key : m \in {x \in Mutations(t) : x.data # 0}}

\* C2: a snapshot of head taken by another thread at any moment shows all
\* of the mutations of a committed transaction or none of them.  Stated for
\* a committed transaction that put two or more entities under keys that
\* did not exist when it began, with no other writer on head: the
\* observer's snapshot holds all of these entities or none, and was taken
\* when all or none of the mutations had been applied.
C2_SnapshotSeesAllOrNone ==
    \A t \in Txns :
        (/\ txn[t].st = "committed"
         /\ NumMuts(txn[t]) >= 2
         /\ budget.ds = MaxDsOps
         /\ Cardinality(PutKeys(t)) = NumMuts(txn[t])
         /\ \A k \in PutKeys(t) : collGet(beginHead[t].ents, keyBytes(k)) = 0)
            => /\ obsApplied[t] \in {0, NumMuts(txn[t])}
               /\ \A i \in 1..Len(obs) :
                    {k \in PutKeys(t) :
                        collGet(Deref(obs[i]).ents, keyBytes(k)) # 0}
                            \in {{}, PutKeys(t)}

\* C7: what is read through a snapshot (the observer's, from takeSnapshot
\* or getQuerySnaps, or a transaction's, from mkTxn) is what it read when it
\* was obtained, which for a snapshot of head is what head held when it was
\* taken, whatever has been written to head since.
C7_SnapshotIsolation ==
    /\ Len(obsAt) = Len(obs)
    /\ \A i \in 1..Len(obs) : Deref(obs[i]) = obsAt[i]
    /\ \A t \in Txns : txn[t].st # "idle" => Deref(txn[t].snap) = beginHead[t]

\* Both snapshots are held while head has moved on, by a non-transactional
\* write and by the writes of a commit.
C7_Witness ==
    /\ Len(obs) = 1
    /\ budget.ds < MaxDsOps
    /\ obsAt[1] # head
    /\ obsAt[1].idx # head.idx
    /\ txn[1].st = "committed" /\ Written(txn[1]) # {}
    /\ beginHead[1] # head /\ beginHead[1] # obsAt[1]

GroupLimit(t) == IF txn[t].isXG THEN 25 ELSE 1
TxnOps == {"getMulti", "putMulti", "delMulti"}
LimitErrs == {"too many entity groups", "cross-group"}

\* C6: a transaction never records more than 1 (non-XG) or 25 (XG) entity
\* groups; a Get/Put/Delete on a new group made at the limit returns an
\* error and leaves groups and mutation lists as they were; a call on a
\* recorded group succeeds, at the limit as before it.
C6_GroupLimit ==
    [][\A t \in Txns :
        /\ Cardinality(DOMAIN txn'[t].muts) <= GroupLimit(t)'
        /\ (\E op \in TxnOps : TxnCall(t, op)) =>
             LET r == txn'[t].ret
                 rk == keyBytes(Root(r.key))
                 new == rk \notin DOMAIN txn[t].muts
                 full == Cardinality(DOMAIN txn[t].muts) = GroupLimit(t)
             IN  /\ (r.err \in LimitErrs) <=> (new /\ full)
                 /\ r.err \in LimitErrs => txn'[t].muts = txn[t].muts
                 /\ r.err \notin LimitErrs => rk \in DOMAIN txn'[t].muts]_vars

\* At the limit of 25 groups (XG) or 1 group (non-XG), with a mutation
\* recorded: a call on a new group has just been refused.
C6_WitnessXG ==
    /\ txn[1].isXG
    /\ Cardinality(DOMAIN txn[1].muts) = 25
    /\ Written(txn[1]) # {}
    /\ txn[1].ret.err = "too many entity groups"

C6_Witness ==
    /\ ~txn[1].isXG
    /\ Cardinality(DOMAIN txn[1].muts) = 1
    /\ Written(txn[1]) # {}
    /\ txn[1].ret.err = "cross-group"
    /\ txn[1].ret.key = <<0, 2>>

\* The planned fetch that serves input index i, or 0.
FetchOf(i) ==
    IF \E j \in 1..Len(fp.p.idxMap) : fp.p.idxMap[j] = i
    THEN CHOOSE j \in 1..Len(fp.p.idxMap) : fp.p.idxMap[j] = i
    ELSE 0

\* C10: in a finished plan, toSave[j] is an item exactly when the cache item
\* of input idxMap[j] is a lock held under the fetcher's nonce, and it is
\* then that item; a key with no item, with a lock under another nonce,
\* with data that does not decode or with any other flag is fetched with
\* no item to save.
C10_SaveOnlyOwnLock ==
    PlanDone =>
        /\ Len(fp.p.toSave) = Len(fp.p.idxMap)
        /\ \A j \in 1..Len(fp.p.idxMap) :
             LET it == fp.f.lockItems[fp.p.idxMap[j]]
                 own == /\ it # NilItem
                        /\ it.flags = "ItemHasLock"
                        /\ it.value = fp.f.nonce
             IN  /\ (fp.p.toSave[j] # NilItem) <=> own
                 /\ own => fp.p.toSave[j] = it
        /\ \A i \in 1..Len(fp.f.lockItems) :
             LET it == fp.f.lockItems[i]
             IN  (\/ it = NilItem
                  \/ it.flags = "ItemHasLock" /\ it.value # fp.f.nonce
                  \/ it.flags = "ItemHasData" /\ it.value \notin {"", "pm"}
                  \/ it.flags \notin {"ItemHasLock", "ItemHasData"})
                     => /\ FetchOf(i) # 0
                        /\ fp.p.toSave[FetchOf(i)] = NilItem

\* The plan for [own lock, valid data, no item, lock of another fetcher].
C10_Witness ==
    /\ PlanDone
    /\ Len(fp.f.lockItems) = 4
    /\ fp.f.nonce = "n1"
    /\ fp.f.lockItems = <<ItemAt(1, <<"ItemHasLock", "n1">>),
                          ItemAt(2, <<"ItemHasData", "pm">>),
                          NilItem,
                          ItemAt(4, <<"ItemHasLock", "n2">>)>>
    /\ fp.p.idxMap = <<1, 3, 4>>
    /\ fp.p.toSave = <<ItemAt(1, <<"ItemHasLock", "n1">>), NilItem, NilItem>>
    /\ fp.p.decoded[2] = "pm"

\* The fetches planned for input index i.
FetchesOf(i) == {j \in 1..Len(fp.p.idxMap) : fp.p.idxMap[j] = i}

\* C11: a finished plan partitions the input: each index is fetched exactly
\* once, or served from cache (decoded[i] set), or has ErrNoSuchEntity in
\* the error vector, and never two of these; a Data item that decodes, or
\* decodes to the missing-entity sentinel, is not fetched.
C11_PlanPartitionsInput ==
    PlanDone =>
        \A i \in 1..Len(fp.f.lockItems) :
            LET fetched == Cardinality(FetchesOf(i)) = 1
                served == fp.p.decoded[i] # NilPM
                missing == fp.p.lme[i] = "ErrNoSuchEntity"
                it == fp.f.lockItems[i]
            IN  /\ Cardinality(FetchesOf(i)) <= 1
                /\ Cardinality({b \in {<<1, fetched>>, <<2, served>>, <<3, missing>>} :
                                    b[2]}) = 1
                /\ (it # NilItem /\ it.flags = "ItemHasData"
                        /\ it.value \in {"", "pm"}) => ~fetched

\* A finished plan with one key of each kind: fetched, served, missing.
C11_Witness ==
    /\ PlanDone
    /\ Len(fp.f.lockItems) = 3
    /\ fp.p.idxMap = <<1>>
    /\ fp.p.decoded[2] = "pm"
    /\ fp.p.lme[3] = "ErrNoSuchEntity"
    /\ fp.f.lockItems[3] = ItemAt(3, <<"ItemHasData", "">>)

DsCall(op) == dsRet'.op = op /\ budget'.ds + budget'.snaps < budget.ds + budget.snaps
ModeOps == {"setConsistent", "catchupIndexes", "setSnapshot"}
\* What handle s reads after the step.
DerefNext(s) == IF s.live THEN head' ELSE s.m

\* C13: while d.snap is set, it and what is read through it change only in
\* setConsistent, catchupIndexes and setSnapshot, never in a write to
\* head; getQuerySnaps(false) returns it as idx, getQuerySnaps(true) a
\* fresh snapshot of head, and head is always fresh.  Once d.snap is nil,
\* getQuerySnaps returns one fresh snapshot of head twice, and setSnapshot
\* and catchupIndexes leave d.snap nil.
C13_LaggingSnapshot ==
    [][/\ (~ \E op \in ModeOps : DsCall(op)) =>
             /\ snap' = snap
             /\ snap # <<>> => DerefNext(snap'[1]) = Deref(snap[1])
       /\ DsCall("getQuerySnaps") =>
             /\ obs'[2] = Snapshot(head) /\ DerefNext(obs'[2]) = head
             /\ snap = <<>> => obs'[1] = obs'[2]
             /\ (snap # <<>> /\ dsRet'.val = BoolVal(FALSE)) => obs'[1] = snap[1]
             /\ (snap # <<>> /\ dsRet'.val = BoolVal(TRUE)) => obs'[1] = obs'[2]
       /\ (snap = <<>> /\ (DsCall("setSnapshot") \/ DsCall("catchupIndexes")))
             => snap' = <<>>
       /\ (DsCall("setConsistent") /\ dsRet'.val = BoolVal(TRUE)) => snap' = <<>>]_vars

\* The lagging snapshot is behind head when getQuerySnaps(false) returns it.
C13_Witness ==
    /\ dsRet.op = "getQuerySnaps" /\ dsRet.val = BoolVal(FALSE)
    /\ snap # <<>>
    /\ Len(obs) = 2
    /\ obs[1] = snap[1]
    /\ Deref(obs[1]) # head
    /\ Deref(obs[2]) = head
    /\ txn[1].st = "committed" /\ Written(txn[1]) # {}

\* In always-consistent mode, after catchupIndexes, a query reads head.
C13_WitnessAlways ==
    /\ dsRet.op = "getQuerySnaps"
    /\ snap = <<>>
    /\ budget.ds <= MaxModeOps - 3
    /\ Len(obs) = 2 /\ obs[1] = obs[2]
    /\ Deref(obs[1]) = head /\ head # EmptyStore

\* C14: with special entities disabled, a Put with an incomplete key
\* reports an error for the key and changes nothing: outside a transaction
\* head stays as it is, inside a transaction head stays as it is and no
\* group and no mutation is recorded; allocateIDs returns an error and
\* leaves head as it is.
C14_DisabledIncompletePutFails ==
    [][disableSpecialEntities =>
        /\ \A k \in IncompleteKeys, v \in Vals :
             /\ DsPut(k, v) =>
                  /\ dsRet'.err # "" /\ dsRet'.key = k
                  /\ head' = head
             /\ \A t \in Txns :
                  TxnPut(t, k, v) =>
                     /\ txn'[t].ret.err # "" /\ txn'[t].ret.key = k
                     /\ head' = head
                     /\ txn'[t].muts = txn[t].muts
        /\ \A k \in InKeys, n \in 1..NumRoots :
             AllocateIDs(k, n) => (dsRet'.err # "" /\ head' = head)]_vars

\* Both refusals have happened: the writer's Put and the transaction's Put
\* with an incomplete key, on a head that holds an entity.
C14_Witness ==
    /\ disableSpecialEntities
    /\ dsRet.op = "putMulti" /\ Incomplete(dsRet.key) /\ dsRet.err # ""
    /\ txn[1].st = "open"
    /\ txn[1].ret.op = "putMulti" /\ Incomplete(txn[1].ret.key)
    /\ txn[1].ret.err # ""
    /\ txn[1].muts = NoMuts

\* C15: once a transaction is closed it stays closed; every later call
\* through run returns the expired error and leaves the recorded groups and
\* mutations (and head) as they were; a second endTxn panics and leaves the
\* transaction closed.
C15_ClosedStaysClosed ==
    [][\A t \in Txns :
        txn[t].closed = 1 =>
            /\ txn'[t].closed = 1
            /\ txn'[t].muts = txn[t].muts
            /\ (\E op \in TxnOps : TxnCall(t, op)) =>
                  /\ txn'[t].ret.err = Expired
                  /\ txn'[t].ret.val = 0
                  /\ head' = head
            /\ (\E k \in InComplete : TxnCallEnded(t, "getMulti", k)
                                       \/ TxnCallEnded(t, "delMulti", k)) =>
                  \E op \in TxnOps : TxnCall(t, op)
            /\ EndTxnAgain(t) => txn'[t].ret.err = EndedTwice]_vars

\* A committed, closed transaction with a recorded mutation has refused a
\* call, and a later second endTxn has panicked.
C15_Witness ==
    /\ txn[1].st = "committed" /\ txn[1].closed = 1
    /\ Written(txn[1]) # {}
    /\ txn[1].ret.op = "endTxn" /\ txn[1].ret.err = EndedTwice
    /\ budget.ops[1] = 0

C15_WitnessExpired ==
    /\ txn[1].st = "committed" /\ txn[1].closed = 1
    /\ Written(txn[1]) # {}
    /\ txn[1].ret.op = "delMulti" /\ txn[1].ret.err = Expired

\* C16: when the callback of a call with several keys returns Stop at item
\* i, the call ends there: the callback was invoked for the items up to i
\* only, no later item was read or written, and the call returned nil.
C16_StopEndsIteration ==
    (/\ mcall.op # ""
     /\ ~mcall.cb.nil
     /\ mcall.cb.ret = "Stop"
     /\ mcall.cb.at \in 1..Len(mcall.calls))
        => /\ Len(mcall.calls) = mcall.cb.at
           /\ mcall.n = mcall.cb.at
           /\ mcall.err = ""

\* The step applies one mutation of transaction t, and which one.
ApplyStep(t) == txn[t].st = "applying" /\ txn'[t] # txn[t]
AppliedRk(t) ==
    IF txn[t].agrp # NoRk THEN txn[t].agrp
    ELSE IF txn'[t].agrp # NoRk THEN txn'[t].agrp
    ELSE CHOOSE rk \in txn'[t].adone \ txn[t].adone : TRUE
AppliedMut(t) == txn[t].muts[AppliedRk(t)][txn[t].ai + 1]
GroupVersion(h, key) == curVersion(h.ents, groupMetaKey(key))
SpecialRows(h) == {r \in DOMAIN h.ents : r[1] # "ent"}

\* C17: with special entities enabled, a successful Put outside a
\* transaction, and each Put a commit applies, raises the version of its
\* key's entity group in head by exactly 1; and no group version and no ID
\* counter of head ever goes down or away.
C17_VersionsGrow ==
    [][/\ (/\ ~disableSpecialEntities
           /\ DsCall("putMulti")
           /\ dsRet'.err = "")
             => GroupVersion(head', dsRet'.key) = GroupVersion(head, dsRet'.key) + 1
       /\ \A t \in Txns :
            (/\ ~disableSpecialEntities
             /\ ApplyStep(t)
             /\ AppliedMut(t).data # 0)
               => GroupVersion(head', AppliedMut(t).key)
                     = GroupVersion(head, AppliedMut(t).key) + 1
       /\ \A r \in SpecialRows(head) :
            /\ r \in DOMAIN head'.ents
            /\ head'.ents[r] >= head.ents[r]]_vars

\* A Put by the writer and a Put applied by a commit have both raised the
\* version of one entity group.
C17_Witness ==
    /\ ~disableSpecialEntities
    /\ dsRet.op = "putMulti" /\ dsRet.err = ""
    /\ txn[1].st = "committed"
    /\ \E rk \in Written(txn[1]) :
         /\ rk = keyBytes(Root(dsRet.key))
         /\ \E i \in 1..Len(txn[1].muts[rk]) : txn[1].muts[rk][i].data # 0
    /\ GroupVersion(head, dsRet.key) >= 2

\* C18: with special entities enabled, the ID blocks [firstID, firstID+n-1]
\* that allocateIDs (n >= 1) and the Puts of incomplete keys, inside and
\* outside transactions, hand out on one counter are disjoint and strictly
\* increasing in allocation order, whichever way the callers interleave; and
\* allocateIDs with n <= 0 panics and leaves every counter as it was.
BlockFirst(b) == b[1]
BlockLast(b) == b[1] + b[2] - 1
BlocksIncrease(bl) ==
    \A row \in DOMAIN bl :
        /\ \A i \in 1..Len(bl[row]) :
              /\ BlockFirst(bl[row][i]) >= 1
              /\ BlockLast(bl[row][i]) >= BlockFirst(bl[row][i])
              /\ BlockLast(bl[row][i]) <= curVersion(head'.ents, row)
        /\ \A i \in 1..Len(bl[row]), j \in 1..Len(bl[row]) :
              i < j => BlockLast(bl[row][i]) < BlockFirst(bl[row][j])
OneLowOneHigh ==
    /\ Len(qr.filters) = 2
    /\ \E i \in 1..2 : qr.filters[i].op \in LowOps
    /\ \E i \in 1..2 : qr.filters[i].op \in HighOps
LowFilter == qr.filters[CHOOSE i \in 1..2 : qr.filters[i].op \in LowOps]
HighFilter == qr.filters[CHOOSE i \in 1..2 : qr.filters[i].op \in HighOps]
NoValueAdmitted ==
    \/ LowFilter.v > HighFilter.v
    \/ LowFilter.v = HighFilter.v /\ (LowFilter.op = ">" \/ HighFilter.op = "<")
RowIn(rq, v, k) ==
    /\ ~PosLess(curs(v, k), rq.start)
    /\ rq.end = NilPos \/ PosLess(curs(v, k), rq.end)
C19_NullQueryIffBoundsEmpty ==
    (OneLowOneHigh /\ qr.stage # "built") =>
        /\ (qr.fq.err = ErrNullQuery) <=> NoValueAdmitted
        /\ (qr.stage = "done" /\ qr.startC = <<>> /\ qr.endC = <<>>) =>
              /\ (qr.err = ErrNullQuery) <=> NoValueAdmitted
              /\ (/\ LowFilter.op = ">=" /\ HighFilter.op = "<="
                  /\ LowFilter.v = HighFilter.v) =>
                    /\ qr.err = ""
                    /\ \A v \in CursorVals, k \in QKeys :
                          RowIn(qr.rq, v, k) <=> v = LowFilter.v
C19_Witness ==
    /\ qr.stage = "done"
    /\ qr.filters = <<[op |-> "<=", v |-> 2], [op |-> ">=", v |-> 2]>>
    /\ qr.startC = <<>> /\ qr.endC = <<>>
    /\ qr.err = ""
    /\ qr.rq.start = ToBytes(2) /\ qr.rq.end = increment(ToBytes(2))
C19_WitnessNull ==
    /\ qr.stage = "done"
    /\ qr.filters = <<[op |-> ">=", v |-> 2], [op |-> "<", v |-> 2]>>
    /\ qr.err = ErrNullQuery

\* C20: with inequality bounds and cursors, the reduced scan starts at the
\* later of the low bound and the start cursor and ends at the earlier of
\* the high bound and the end cursor, so it never holds a row outside the
\* inequality range or outside the cursors; the query is ErrNullQuery when
\* the start is at or after the end once they are clamped.
Later(a, b) == IF PosLess(a, b) THEN b ELSE a
Earlier(a, b) ==
    IF a = NilPos THEN b ELSE IF b = NilPos THEN a
    ELSE IF PosLess(b, a) THEN b ELSE a
Satisfies(v, f) ==
    CASE f.op = ">" -> v > f.v
      [] f.op = ">=" -> v >= f.v
      [] f.op = "<" -> v < f.v
      [] f.op = "<=" -> v <= f.v
C20_CursorsClampedInward ==
    (qr.stage = "done" /\ qr.fq.err = "") =>
        LET lo == lowPos(qr.fq.low)
            hi == highPos(qr.fq.high)
            sc == IF qr.startC = <<>> THEN Lowest ELSE qr.startC[1]
            ec == IF qr.endC = <<>> THEN NilPos ELSE qr.endC[1]
        IN  /\ qr.rq.start = Later(lo, sc)
            /\ qr.rq.end = Earlier(hi, ec)
            /\ \A v \in CursorVals, k \in QKeys :
                  RowIn(qr.rq, v, k) =>
                      /\ \A i \in 1..Len(qr.filters) : Satisfies(v, qr.filters[i])
                      /\ ~PosLess(curs(v, k), sc)
                      /\ ec = NilPos \/ PosLess(curs(v, k), ec)
            /\ (qr.err = ErrNullQuery) <=>
                  (qr.rq.end # NilPos /\ ~PosLess(qr.rq.start, qr.rq.end))
            /\ qr.err = ErrNullQuery =>
                  ~\E v \in CursorVals, k \in QKeys : RowIn(qr.rq, v, k)
C20_Witness ==
    /\ qr.stage = "done"
    /\ qr.filters = <<[op |-> ">", v |-> 1], [op |-> "<", v |-> 3]>>
    /\ qr.startC = <<curs(0, 1)>> /\ qr.endC = <<curs(4, 2)>>
    /\ qr.err = ""
    /\ qr.rq.start = increment(ToBytes(1)) /\ qr.rq.end = ToBytes(3)
C20_WitnessNull ==
    /\ qr.stage = "done"
    /\ qr.filters = <<[op |-> ">", v |-> 1], [op |-> "<", v |-> 3]>>
    /\ qr.startC = <<curs(4, 1)>> /\ qr.endC = <<curs(0, 2)>>
    /\ qr.err = ErrNullQuery

\* C21: Finalize removes the orders whose property has an equality filter,
\* keeps the first occurrence of a duplicate order, and leaves an order on
\* __key__ among the orders: ascending __key__ is appended as the final
\* order when the query gives no order on __key__.  The result is the same
\* whether an Eq or an Order came first, and finalizing the normalized
\* query gives the same finalized query.
Finalized == qr.stage \in {"finalized", "refinalized"}
KeptOrders ==
    {i \in 1..Len(qr.q.order) :
        /\ qr.q.order[i].Property \notin qr.q.eqFilts
        /\ \A j \in 1..(i - 1) : qr.q.order[j].Property # qr.q.order[i].Property}
RankOf(i) == Cardinality({j \in KeptOrders : j <= i})
KeyOrdered == \E i \in KeptOrders : qr.q.order[i].Property = KeyProp
SwapCalls(calls, i) ==
    [n \in 1..Len(calls) |->
        IF n = i THEN calls[i + 1] ELSE IF n = i + 1 THEN calls[i] ELSE calls[n]]
OrdersNormalized ==
    /\ \A i \in KeptOrders : qr.fq.orders[RankOf(i)] = qr.q.order[i]
    /\ \A n \in 1..Len(qr.fq.orders) :
          /\ qr.fq.orders[n].Property \notin qr.fq.eqFilts
          /\ \A m \in 1..Len(qr.fq.orders) :
                qr.fq.orders[m].Property = qr.fq.orders[n].Property => m = n
EqOrderCommute ==
    \A i \in 1..(Len(qr.calls) - 1) :
        qr.calls[i].op # qr.calls[i + 1].op =>
            FinalizeOrders(Build(NewQuery, SwapCalls(qr.calls, i), 1)) = qr.fq
FinalizeIdempotent == qr.stage = "refinalized" => qr.fq2 = qr.fq
LastMut(td, key) ==
    LET ms == td.muts[keyBytes(Root(key))] IN ms[Len(ms)]
C22_TxnPutKeyIsFinal ==
    [][\A t \in Txns :
        /\ (/\ TxnCall(t, "putMulti")
            /\ txn'[t].ret.err = ""
            /\ ChangedRows # {}) =>
              LET r == txn'[t].ret
              IN  /\ ~Incomplete(r.key)
                  /\ r.key[2] = collGet(head.ents, IDRowOf(r.key)) + 1
                  /\ collGet(head'.ents, IDRowOf(r.key)) = r.key[2]
                  /\ LastMut(txn'[t], r.key) = [key |-> r.key, data |-> r.val]
        /\ \A rk \in DOMAIN txn'[t].muts : \A i \in 1..Len(txn'[t].muts[rk]) :
              ~Incomplete(txn'[t].muts[rk][i].key)
        /\ (txn[t].st \in {"open", "applying"} /\ txn'[t].st # txn[t].st) =>
              ChangedRows \cap IDRows = {}
        /\ ApplyStep(t) =>
              /\ ChangedRows \cap IDRows = {}
              /\ AppliedMut(t).data # 0 =>
                    collGet(head'.ents, keyBytes(AppliedMut(t).key))
                        = AppliedMut(t).data]_vars
\* A committed transaction whose entity is in head under the ID that its
\* Put of an incomplete key was handed.
C22_Witness ==
    \E t \in Txns :
        /\ txn[t].st = "committed"
        /\ \E rk \in DOMAIN txn[t].muts : \E i \in 1..Len(txn[t].muts[rk]) :
              LET m == txn[t].muts[rk][i]
              IN  /\ m.data # 0
                  /\ m.key = <<1, 1>>
                  /\ BlocksIn(blocks, IDRowOf(m.key)) = <<<<1, 1>>>>
                  /\ collGet(head.ents, keyBytes(m.key)) = m.data

\* C23: at the step that completes a commit, head holds for every key the
\* transaction mutated the outcome of the last mutation recorded for that
\* key: the entity of the last Put, or no entity after a last Delete.
MutsOf(td, key) ==
    LET ms == td.muts[keyBytes(Root(key))]
    IN  {i \in 1..Len(ms) : ms[i].key = key}
MutatedKeys(td) ==
    {td.muts[rk][i].key : <<rk, i>> \in
        {x \in (DOMAIN td.muts) \X (1..MaxTxnOps) : x[2] <= Len(td.muts[x[1]])}}
LastOutcome(td, key) ==
    LET ms == td.muts[keyBytes(Root(key))]
        i == CHOOSE n \in MutsOf(td, key) : \A m \in MutsOf(td, key) : m <= n
    IN  ms[i].data
C23_CommitLeavesLastMutation ==
    [][\A t \in Txns :
        (txn[t].st = "applying" /\ txn'[t].st = "committed") =>
            \A key \in MutatedKeys(txn[t]) :
                collGet(head'.ents, keyBytes(key)) = LastOutcome(txn[t], key)]_vars

\* C24: once endTxn has completed for a transaction (closed = 1), its
\* recorded entity groups and mutation lists never change again, whatever
\* calls of run other threads had under way.
C24_ClosedMutsFrozen ==
    [][\A t \in Txns : txn[t].closed = 1 => txn'[t].muts = txn[t].muts]_vars

\* C25: when special entities are disabled while head holds no group
\* version, head and every snapshot read every group version as 0 from
\* then on, every commit check returns true, and each write of a commit
\* leaves its own outcome in head, so of two transactions that write one
\* group both commit and the one applied later overwrites the other.
VersionRows(m) == {r \in DOMAIN m.ents : r[1] = "__entity_group__"}
DisabledFromStart == disableSpecialEntities /\ VersionRows(head) = {}
C25_DisabledEveryCommitPasses ==
    [][DisabledFromStart =>
        /\ disableSpecialEntities'
        /\ VersionRows(head') = {}
        /\ \A t \in Txns :
              /\ txn[t].st # "idle" => VersionRows(Deref(txn[t].snap)) = {}
              /\ (txn[t].st = "open" /\ txn'[t].st \notin {"open", "aborted"}) =>
                    /\ txn'[t].ret = Ret("canApplyTxn", NoKey, 1, "")
                    /\ txn'[t].st # "failed"
              /\ ApplyStep(t) =>
                    collGet(head'.ents, keyBytes(AppliedMut(t).key))
                        = AppliedMut(t).data]_vars
\* Both transactions wrote K/1 concurrently, both committed, and the
\* Delete, applied last, removed what the Put had stored.
C25_Witness ==
    /\ disableSpecialEntities /\ VersionRows(head) = {}
    /\ conc
    /\ \A t \in Txns : txn[t].st = "committed"
    /\ txn[1].muts = (keyBytes(<<0, 1>>) :> <<[key |-> <<0, 1>>, data |-> 1]>>)
    /\ txn[2].muts = (keyBytes(<<0, 1>>) :> <<[key |-> <<0, 1>>, data |-> 0]>>)
    /\ collGet(head.ents, keyBytes(<<0, 1>>)) = 0
    /\ \A t \in Txns : collGet(beginHead[t].ents, keyBytes(<<0, 1>>)) = 0

\* C26: with special entities enabled a Delete outside a transaction moves
\* the version of the key's group up by exactly 1 whether or not the entity
\* exists; when it does not exist nothing else in head changes; and every
\* open transaction that recorded a write in that group is refused by the
\* commit check from then on.
WroteGroup(td, k) ==
    \E rk \in DOMAIN td.muts :
        /\ Len(td.muts[rk]) > 0
        /\ groupMetaKey(<<rk[2], rk[3]>>) = groupMetaKey(k)
OtherRows(h, k) ==
    [r \in DOMAIN h.ents \ {groupMetaKey(k)} |-> h.ents[r]]
C26_DeleteBumpsGroupVersion ==
    [][\A k \in CompleteKeys :
        (DsCall("delMulti") /\ dsRet'.key = k /\ ~disableSpecialEntities) =>
            /\ GroupVersion(head', k) = GroupVersion(head, k) + 1
            /\ collGet(head.ents, keyBytes(k)) = 0 =>
                  /\ OtherRows(head', k) = OtherRows(head, k)
                  /\ head'.idx = head.idx
            /\ collGet(head'.ents, keyBytes(k)) = 0
            /\ \A t \in Txns :
                  (txn[t].st = "open" /\ WroteGroup(txn[t], k)) =>
                      ~canApplyTxn(head', txn'[t])]_vars
\* A transaction put K/1 into an empty store, a Delete of the absent K/1
\* left nothing in head but version 1 of the group, and the commit check
\* refused the transaction.
C26_Witness ==
    /\ ~disableSpecialEntities
    /\ dsRet.op = "delMulti" /\ dsRet.key = <<0, 1>>
    /\ head = [ents |-> (groupMetaKey(<<0, 1>>) :> 1), idx |-> {}]
    /\ txn[1].st = "failed"
    /\ WroteGroup(txn[1], <<0, 1>>)
    /\ beginHead[1] = EmptyStore

\* C27: putMulti and delMulti outside a transaction take the head lock once
\* per key, so each pass changes head for its own key only and other
\* threads see head between two passes; when the callback returns an error
\* other than Stop at item i the call returns that error after i passes,
\* the keys after i are as they were at entry and the writes of items 1..i
\* stay in head.
ItemStep == qr # NoQuery /\ qr' # qr
Quiet == budget.ds = qr.ds
RowOf(h, k) == collGet(h.ents, keyBytes(k))
Sequential(c) ==
    IF c.op = "putMulti"
    THEN putMulti(c.from, disableSpecialEntities, c.keys, ValsFor(c.keys), c.cb)
    ELSE delMulti(c.from, disableSpecialEntities, c.keys, c.cb)
C27_PerKeyNoRollback ==
    [][ItemStep =>
        LET i == qr.i
            e == CbRet(qr.cb, i)
            n == Len(qr.keys)
            done == {mcall'.calls[j].key : j \in 1..i}
        IN  /\ \A k \in CompleteKeys :
                  (k # qr.keys[i] /\ RowOf(head', k) # RowOf(head, k)) =>
                      /\ Incomplete(qr.keys[i])
                      /\ k = <<0, curVersion(head'.ents, rootIDsKey("K"))>>
            /\ (e = "" /\ i < n) => (qr' # NoQuery /\ qr'.i = i + 1)
            /\ e \notin {"", "Stop"} =>
                  /\ qr' = NoQuery
                  /\ mcall'.err = e /\ mcall'.n = i
                  /\ Len(mcall'.calls) = i
                  /\ Quiet =>
                        /\ \A j \in 1..i :
                              RowOf(head', mcall'.calls[j].key)
                                  = IF qr.op = "putMulti"
                                    THEN ValsFor(qr.keys)[j] ELSE 0
                        /\ \A j \in (i + 1)..n :
                              (~Incomplete(qr.keys[j]) /\ qr.keys[j] \notin done)
                                  => RowOf(head', qr.keys[j]) = RowOf(qr.from, qr.keys[j])
                        /\ curVersion(head'.ents, rootIDsKey("K"))
                              = curVersion(qr.from.ents, rootIDsKey("K"))
                                  + NumIncomplete(SubSeq(qr.keys, 1, i))
            /\ (qr' = NoQuery /\ Quiet) =>
                  /\ head' = Sequential(qr).head
                  /\ mcall' = Call(qr.op, 0, qr.keys, qr.cb, Sequential(qr))]_vars
\* A putMulti of K/1 and K/1/1 whose first write the observer saw without
\* the second, followed by a delMulti of both whose callback failed at the
\* first item: K/1 is gone and K/1/1 is still there.
C27_Witness ==
    /\ qr = NoQuery /\ budget.ds = 0
    /\ obsAt # <<>>
    /\ RowOf(obsAt[1], <<0, 1>>) = 1 /\ RowOf(obsAt[1], <<1, 1>>) = 0
    /\ mcall.op = "delMulti" /\ mcall.keys = <<<<0, 1>>, <<1, 1>>>>
    /\ mcall.err = "callback error" /\ mcall.n = 1
    /\ RowOf(head, <<0, 1>>) = 0 /\ RowOf(head, <<1, 1>>) = 1

=============================================================================
